---- MODULE Spec2Model ----
(***************************************************************************)
(* Model of the derivation pipeline of coinbase-moon-lander.py:            *)
(*   get_asset_price / get_best_bid   (price resolver)                     *)
(*   get_open_orders_data             (classifier, scorer, valuation,      *)
(*                                     depth bucketing)                    *)
(*   get_mission_history              (fill matcher, P&L, outcome)         *)
(*   the page script                  (one polling pass: scan, render,     *)
(*                                     history, sleep, rerun)              *)
(*                                                                         *)
(* Number representation.  The program computes with decimal.Decimal.      *)
(* Prices are modelled as whole dollars, sizes as thousandths of a unit,   *)
(* fees and money amounts as thousandths of a dollar (mills), so that      *)
(* size * price is an amount in mills.  Decimal division is exact up to    *)
(* 28 significant digits; for the magnitudes modelled here                 *)
(* int(Decimal quotient) equals the exact quotient truncated toward zero,  *)
(* which is what TruncDiv computes.  0 stands for "absent" (None) for      *)
(* prices and timestamps, as Decimal('0') does in the program.             *)
(***************************************************************************)
EXTENDS Integers, Sequences, FiniteSets, TLC

VARIABLES
    pc,            \* "call_open" / "call_history": the function has been called;
                   \* "returned": it has returned; otherwise the position of
                   \* the page script ("main", "missions", "mission_loop",
                   \* "history", "history_cards", "refresh", "rerun")
    open_orders,   \* answer of client.list_orders(order_status=["OPEN"]), with the
                   \* answers the exchange gives to each order's price lookups
    depth_map,     \* product id -> answer of get_market_depth (NoBook when None)
    orders_data,   \* value returned by get_open_orders_data
    st_error,      \* TRUE when get_open_orders_data reported through st.error
    filled_orders, \* answer of client.list_orders(order_status=["FILLED"], ...)
    limit,         \* the limit argument of get_mission_history
    history,       \* value returned by get_mission_history
    fills_raise,   \* TRUE when client.list_orders(order_status=["FILLED"]) raises
    price_history, \* st.session_state.price_history: product id -> price, trend
    page,          \* the elements handed to streamlit in this run of the script
    idx,           \* position of "for o in orders" of the script (1-based)
    touched,       \* product id -> how often its price_history entry was read and
                   \* overwritten in this run of the script (bookkeeping)
    slept,         \* seconds spent in time.sleep in this run of the script
    rng,           \* the generator random.Random(str(seed_val)) of one depth entry:
                   \* zone -> the values it yields for that zone
    placement,     \* the latest call of get_game_coords_safe: arguments and result
    earlier        \* the result of the call before the latest one, kept to
                   \* compare two runs (bookkeeping)

coords_vars == <<rng, placement, earlier>>

script_vars == <<price_history, page, idx, touched, slept>>

vars == <<pc, open_orders, depth_map, orders_data, st_error, filled_orders, limit, history,
          fills_raise, price_history, page, idx, touched, slept, rng, placement, earlier>>

(***************************************************************************)
(* Arithmetic helpers                                                      *)
(***************************************************************************)
Abs(x) == IF x < 0 THEN -x ELSE x

Max(a, b) == IF a >= b THEN a ELSE b

Min(a, b) == IF a <= b THEN a ELSE b

\* int(Decimal(a) / Decimal(b)): the quotient truncated toward zero (b # 0).
TruncDiv(a, b) ==
    LET q == Abs(a) \div Abs(b)
    IN  IF (a < 0) # (b < 0) THEN -q ELSE q

\* The digits of format(Decimal, ",.2f") for an amount of m mills: the amount
\* rounded to cents, half to even (the Decimal default), as a number of cents.
RoundCents(m) ==
    LET a == Abs(m)
        q == a \div 10
        r == a % 10
    IN  IF r > 5 \/ (r = 5 /\ q % 2 = 1) THEN q + 1 ELSE q

\* A display string is represented by its parts: na (the string is "N/A"),
\* plus (a leading "+"), minus (a minus sign), cents (the amount shown).
NA == [na |-> TRUE, plus |-> FALSE, minus |-> FALSE, cents |-> 0]

\* f"{symbol}${amount:,.2f}" with symbol = "+" if amount >= 0 else "".
SignedMoney(m) == [na |-> FALSE, plus |-> m >= 0, minus |-> m < 0, cents |-> RoundCents(m)]

\* f"${amount:,.2f}": no explicit symbol.
Money(m) == [na |-> FALSE, plus |-> FALSE, minus |-> m < 0, cents |-> RoundCents(m)]

(***************************************************************************)
(* Price resolver                                                          *)
(***************************************************************************)
\* get_asset_price: the USD best bid, else the USDC best bid, else None (0).
\* A lookup is [usd |-> bid or 0, usdc |-> bid or 0]; get_best_bid answers None
\* (0) both when the book has no bid and when the exchange call raises.
GetAssetPrice(asset, look) ==
    IF asset \in {"USD", "USDC"} THEN 1
    ELSE IF look.usd # 0 THEN look.usd
    ELSE look.usdc

(***************************************************************************)
(* Order classifier (get_open_orders_data, "Parse Config")                 *)
(***************************************************************************)
\* pid.split('-')[0]
Asset(product_id) ==
    CASE product_id = "BTC-USD" -> "BTC"
      [] product_id = "ETH-USD" -> "ETH"
      [] product_id = "USDC-USD" -> "USDC"
      [] OTHER -> product_id

\* (tp_price_dec, sl_price_dec, size_dec) of an open order.  o.conf names the
\* attribute present on order_configuration ("none": no configuration).  For
\* a limit order the floor is a second get_asset_price call (look2).
Classify(o) ==
    IF o.conf = "limit_limit_gtc" THEN
        [tp |-> o.limit_price, sl |-> GetAssetPrice(Asset(o.product_id), o.look2),
         size |-> o.base_size]
    ELSE IF o.conf = "trigger_bracket_gtc" THEN
        [tp |-> o.limit_price, sl |-> o.stop_price, size |-> o.base_size]
    ELSE IF o.conf = "stop_limit_stop_limit_gtc" THEN
        [tp |-> 0, sl |-> o.stop_price, size |-> o.base_size]
    ELSE [tp |-> 0, sl |-> 0, size |-> 0]

(***************************************************************************)
(* Progress scorer (get_open_orders_data, "Calculate Health Score")        *)
(***************************************************************************)
\* Lines 216-220, both target and floor set: linear interpolation, int(), clamp.
BracketScoreMutRound(tp, sl, cur) ==
    IF tp - sl # 0
    THEN Max(0, Min(100, TruncDiv(2 * (cur - sl) * 100 + (tp - sl), 2 * (tp - sl))))
    ELSE 50

BracketScoreMutNoClamp(tp, sl, cur) ==
    IF tp - sl # 0
    THEN TruncDiv((cur - sl) * 100, tp - sl)
    ELSE 50

BracketScoreMutFromTarget(tp, sl, cur) ==
    IF tp - sl # 0
    THEN Max(0, Min(100, TruncDiv((tp - cur) * 100, tp - sl)))
    ELSE 50

BracketScore(tp, sl, cur) ==
    IF tp - sl # 0
    THEN Max(0, Min(100, TruncDiv((cur - sl) * 100, tp - sl)))
    ELSE 50

\* Lines 227-236, floor only, side SELL; range_buffer = sl * 0.1, so
\* (dist / range_buffer) * 50 = dist * 500 / sl.
StopSellScoreMutStrict(sl, cur) ==
    IF cur < sl THEN 0
    ELSE 50 + Min(50, TruncDiv((cur - sl) * 500, sl))

StopSellScore(sl, cur) ==
    IF cur <= sl THEN 0
    ELSE 50 + Min(50, TruncDiv((cur - sl) * 500, sl))

\* Lines 237-243, floor only, any other side;
\* (1 - dist_to_go / range_buffer) * 100 = (100 * sl - 1000 * dist_to_go) / sl.
StopBuyScoreMutStrict(sl, cur) ==
    IF cur > sl THEN 100
    ELSE Max(0, Min(99, TruncDiv(100 * sl - 1000 * (sl - cur), sl)))

StopBuyScore(sl, cur) ==
    IF cur >= sl THEN 100
    ELSE Max(0, Min(99, TruncDiv(100 * sl - 1000 * (sl - cur), sl)))

HealthScoreMutTargetOnly(tp, sl, cur, side) ==
    IF tp > 0 /\ sl > 0 /\ cur > 0 THEN BracketScore(tp, sl, cur)
    ELSE IF tp > 0 /\ cur > 0 THEN BracketScore(tp, sl, cur)
    ELSE IF sl > 0 /\ cur > 0 THEN
        IF side = "SELL" THEN StopSellScore(sl, cur) ELSE StopBuyScore(sl, cur)
    ELSE 50

HealthScore(tp, sl, cur, side) ==
    IF tp > 0 /\ sl > 0 /\ cur > 0 THEN BracketScore(tp, sl, cur)
    ELSE IF tp > 0 /\ cur > 0 THEN 50
    ELSE IF sl > 0 /\ cur > 0 THEN
        IF side = "SELL" THEN StopSellScore(sl, cur) ELSE StopBuyScore(sl, cur)
    ELSE 50

(***************************************************************************)
(* Depth bucketer (get_open_orders_data, "Process Market Depth")           *)
(* A book is [asks |-> levels, bids |-> levels], a level [price, size];    *)
(* level sizes are whole lots of half a unit of the base asset, for which  *)
(* the program's float arithmetic (sums, shares, ratios) is exact.         *)
(***************************************************************************)
NoBook == [asks |-> <<>>, bids |-> <<>>, present |-> FALSE]

total_slots == 24

min_slots == 3

spacing_min_dist == 4

\* pos_pct of a level as the fraction num/den (den > 0), before int().
PosPct(price, tp, sl) ==
    IF tp > 0 /\ sl > 0 THEN
        IF tp - sl > 0
        THEN [num |-> (price - sl) * 100, den |-> tp - sl]
        ELSE [num |-> 50, den |-> 1]
    ELSE IF sl > 0 THEN [num |-> (price - sl) * 500, den |-> sl]
    ELSE [num |-> 50, den |-> 1]

InWindow(pos, lo, hi) == lo * pos.den <= pos.num /\ pos.num <= hi * pos.den

DepthEntry(lvl, tp, sl) ==
    LET pos == PosPct(lvl.price, tp, sl)
    IN  [price |-> lvl.price, raw_size |-> lvl.size, pct |-> TruncDiv(pos.num, pos.den)]

\* raw_ufos: asks above the current price, within 1.2 x target and the window.
RawUfos(asks, tp, sl, cur) ==
    LET ok(lvl) == /\ lvl.price > cur
                   /\ ~(tp > 0 /\ lvl.price * 10 > tp * 12)
                   /\ InWindow(PosPct(lvl.price, tp, sl), -10, 120)
        sel == SelectSeq(asks, ok)
    IN  [i \in 1..Len(sel) |-> DepthEntry(sel[i], tp, sl)]

\* raw_stars: bids below the current price, within 0.8 x floor and the window.
RawStars(bids, tp, sl, cur) ==
    LET ok(lvl) == /\ lvl.price < cur
                   /\ ~(sl > 0 /\ lvl.price * 10 < sl * 8)
                   /\ InWindow(PosPct(lvl.price, tp, sl), -20, 110)
        sel == SelectSeq(bids, ok)
    IN  [i \in 1..Len(sel) |-> DepthEntry(sel[i], tp, sl)]

\* ask_vol_accum / bid_vol_accum: every level of the side, kept or not.
RECURSIVE VolAccum(_)
VolAccum(levels) ==
    IF levels = <<>> THEN 0 ELSE Head(levels).size + VolAccum(Tail(levels))

\* ufo_count, star_count ("Dynamic Density Logic").
SlotCountsMutNoTrim(ask_vol, bid_vol) ==
    LET total_vol == ask_vol + bid_vol
    IN  IF total_vol > 0
        THEN [ufo  |-> Max(min_slots, (total_slots * ask_vol) \div total_vol),
              star |-> Max(min_slots, (total_slots * bid_vol) \div total_vol)]
        ELSE [ufo |-> 10, star |-> 10]

SlotCounts(ask_vol, bid_vol) ==
    LET total_vol == ask_vol + bid_vol
        u0 == Max(min_slots, (total_slots * ask_vol) \div total_vol)
        s0 == Max(min_slots, (total_slots * bid_vol) \div total_vol)
    IN  IF total_vol > 0 THEN
            IF u0 + s0 > total_slots THEN
                IF u0 > s0 THEN [ufo |-> total_slots - s0, star |-> s0]
                ELSE [ufo |-> u0, star |-> total_slots - u0]
            ELSE [ufo |-> u0, star |-> s0]
        ELSE [ufo |-> 10, star |-> 10]

RemoveAt(s, i) == SubSeq(s, 1, i - 1) \o SubSeq(s, i + 1, Len(s))

\* sorted(items, key=raw_size, reverse=True): stable, so among equal sizes the
\* book order is kept.
RECURSIVE SortedBySize(_)
SortedBySize(items) ==
    IF items = <<>> THEN <<>>
    ELSE LET i == CHOOSE k \in 1..Len(items) :
                    /\ \A j \in 1..Len(items) : items[j].raw_size <= items[k].raw_size
                    /\ \A j \in 1..(k - 1) : items[j].raw_size < items[k].raw_size
         IN  <<items[i]>> \o SortedBySize(RemoveAt(items, i))

RECURSIVE GreedyKeepMutNoSpacing(_, _, _, _)
GreedyKeepMutNoSpacing(rest, kept, target_count, min_dist) ==
    IF rest = <<>> \/ Len(kept) >= target_count THEN kept
    ELSE GreedyKeepMutNoSpacing(Tail(rest), Append(kept, Head(rest)), target_count, min_dist)

RECURSIVE GreedyKeep(_, _, _, _)
GreedyKeep(rest, kept, target_count, min_dist) ==
    IF rest = <<>> \/ Len(kept) >= target_count THEN kept
    ELSE LET item == Head(rest)
             is_too_close == \E k \in 1..Len(kept) : Abs(kept[k].pct - item.pct) < min_dist
         IN  GreedyKeep(Tail(rest),
                        IF is_too_close THEN kept ELSE Append(kept, item),
                        target_count, min_dist)

filter_spaced_items(items, target_count, min_dist) ==
    GreedyKeep(SortedBySize(items), <<>>, target_count, min_dist)

RECURSIVE MaxSize(_)
MaxSize(items) ==
    IF Len(items) = 1 THEN items[1].raw_size
    ELSE Max(Head(items).raw_size, MaxSize(Tail(items)))

\* The 1.0 that stands for the maximum size of a side without candidates,
\* in lots.
default_max_size == 2

\* global_max of the "threat level" step: the maximum over the candidates of
\* both sides, taken before the spacing filter.
GlobalMaxMutNoDefault(raw_ufos, raw_stars) ==
    Max(IF raw_ufos = <<>> THEN 0 ELSE MaxSize(raw_ufos),
        IF raw_stars = <<>> THEN 0 ELSE MaxSize(raw_stars))

GlobalMax(raw_ufos, raw_stars) ==
    Max(IF raw_ufos = <<>> THEN default_max_size ELSE MaxSize(raw_ufos),
        IF raw_stars = <<>> THEN default_max_size ELSE MaxSize(raw_stars))

\* level of a kept entry: ratio > 0.6 -> 3, ratio > 0.15 -> 2, else 1.
Level(raw_size, global_max) ==
    IF raw_size * 10 > 6 * global_max THEN 3
    ELSE IF raw_size * 100 > 15 * global_max THEN 2
    ELSE 1

WithLevels(items, global_max) ==
    [i \in 1..Len(items) |->
        [price |-> items[i].price, raw_size |-> items[i].raw_size,
         pct |-> items[i].pct, level |-> Level(items[i].raw_size, global_max)]]

\* The depth part of one loop iteration: the two kept lists, the candidates
\* they were chosen from, the slot counts, and whether the ratio division
\* raised ZeroDivisionError (global_max = 0.0).
Depth(book, tp, sl, cur) ==
    IF ~book.present
    THEN [ufos |-> <<>>, stars |-> <<>>, raw_ufos |-> <<>>, raw_stars |-> <<>>,
          ufo_count |-> 0, star_count |-> 0, raised |-> FALSE]
    ELSE LET raw_ufos  == RawUfos(book.asks, tp, sl, cur)
             raw_stars == RawStars(book.bids, tp, sl, cur)
             counts    == SlotCounts(VolAccum(book.asks), VolAccum(book.bids))
             gmax      == GlobalMax(raw_ufos, raw_stars)
             ufo_fleet == filter_spaced_items(raw_ufos, counts.ufo, spacing_min_dist)
             star_map  == filter_spaced_items(raw_stars, counts.star, spacing_min_dist)
             zero_div  == gmax = 0 /\ (ufo_fleet # <<>> \/ star_map # <<>>)
         IN  [ufos |-> IF zero_div THEN <<>> ELSE WithLevels(ufo_fleet, gmax),
              stars |-> IF zero_div THEN <<>> ELSE WithLevels(star_map, gmax),
              raw_ufos |-> raw_ufos, raw_stars |-> raw_stars,
              ufo_count |-> counts.ufo, star_count |-> counts.star,
              raised |-> zero_div]

(***************************************************************************)
(* Valuation estimator (get_open_orders_data, "Only add if we have some    *)
(* data")                                                                  *)
(***************************************************************************)
\* est_value_str and upside_str as assigned inside the "if tp > 0 or sl > 0"
\* block (the elif of the source repeats the if's condition and never runs).
ValuationMutZeroUpside(size, cur, tp) ==
    IF size > 0 /\ cur > 0 THEN
        [mission_value |-> Money(size * cur),
         upside |-> SignedMoney(size * tp - size * cur)]
    ELSE [mission_value |-> NA, upside |-> SignedMoney(0)]

Valuation(size, cur, tp) ==
    IF size > 0 /\ cur > 0 THEN
        [mission_value |-> Money(size * cur),
         upside |-> IF tp > 0 THEN SignedMoney(size * tp - size * cur) ELSE NA]
    ELSE [mission_value |-> NA, upside |-> NA]

(***************************************************************************)
(* get_open_orders_data                                                    *)
(***************************************************************************)
\* State of the function's locals between two iterations of "for o in orders":
\*   data    orders_data so far
\*   bound   whether est_value_str / upside_str have been assigned in this call
\*   value, upside   their current values (meaningful when bound)
\*   raised  an exception has left the loop for the handler at the end
LoopStart == [data |-> <<>>, bound |-> FALSE, value |-> NA, upside |-> NA, raised |-> FALSE]

\* One iteration of the loop for the order at index i.  The field src (the
\* order's index in the exchange's answer) is bookkeeping of the model: it
\* records which order a mission was built from.
LoopBodyMutLookupRaises(st, o, i, book) ==
    LET cur    == GetAssetPrice(Asset(o.product_id), o.look1)
        c      == Classify(o)
        health == HealthScore(c.tp, c.sl, cur, o.side)
        depth  == Depth(book, c.tp, c.sl, cur)
        has    == c.tp > 0 \/ c.sl > 0
        val    == Valuation(c.size, cur, c.tp)
        bound  == st.bound \/ has
        value  == IF has THEN val.mission_value ELSE st.value
        upside == IF has THEN val.upside ELSE st.upside
    IN  IF st.raised THEN st
        ELSE IF depth.raised \/ ~bound \/ cur = 0 \/ ~book.present
        THEN [st EXCEPT !.raised = TRUE]
        ELSE [data   |-> Append(st.data,
                          [src |-> i, product_id |-> o.product_id, side |-> o.side,
                           tp_price |-> c.tp, sl_price |-> c.sl, size |-> c.size,
                           current_price |-> cur, health |-> health,
                           mission_value |-> value, upside |-> upside,
                           raw_created_time |-> o.created_time,
                           ufos |-> depth.ufos, stars |-> depth.stars]),
              bound  |-> bound,
              value  |-> value,
              upside |-> upside,
              raised |-> FALSE]

LoopBody(st, o, i, book) ==
    LET cur    == GetAssetPrice(Asset(o.product_id), o.look1)
        c      == Classify(o)
        health == HealthScore(c.tp, c.sl, cur, o.side)
        depth  == Depth(book, c.tp, c.sl, cur)
        has    == c.tp > 0 \/ c.sl > 0
        val    == Valuation(c.size, cur, c.tp)
        bound  == st.bound \/ has
        value  == IF has THEN val.mission_value ELSE st.value
        upside == IF has THEN val.upside ELSE st.upside
    IN  IF st.raised THEN st
        ELSE IF depth.raised \/ ~bound
        THEN [st EXCEPT !.raised = TRUE]
        ELSE [data   |-> Append(st.data,
                          [src |-> i, product_id |-> o.product_id, side |-> o.side,
                           tp_price |-> c.tp, sl_price |-> c.sl, size |-> c.size,
                           current_price |-> cur, health |-> health,
                           mission_value |-> value, upside |-> upside,
                           raw_created_time |-> o.created_time,
                           ufos |-> depth.ufos, stars |-> depth.stars]),
              bound  |-> bound,
              value  |-> value,
              upside |-> upside,
              raised |-> FALSE]

RECURSIVE Loop(_, _, _, _)
Loop(st, orders, i, dm) ==
    IF i > Len(orders) THEN st
    ELSE Loop(LoopBody(st, orders[i], i, dm[orders[i].product_id]), orders, i + 1, dm)

\* orders_data.sort(key=raw_created_time, reverse=True): stable, newest first.
RECURSIVE SortNewestFirst(_)
SortNewestFirst(ms) ==
    IF ms = <<>> THEN <<>>
    ELSE LET i == CHOOSE k \in 1..Len(ms) :
                    /\ \A j \in 1..Len(ms) : ms[j].raw_created_time <= ms[k].raw_created_time
                    /\ \A j \in 1..(k - 1) : ms[j].raw_created_time < ms[k].raw_created_time
         IN  <<ms[i]>> \o SortNewestFirst(RemoveAt(ms, i))

\* The sort compares a tz-aware created_dt with the tz-naive pd.Timestamp.min
\* used for an order without created_time: pandas raises TypeError.
MixedTimestamps(ms) ==
    /\ \E i \in 1..Len(ms) : ms[i].raw_created_time = 0
    /\ \E i \in 1..Len(ms) : ms[i].raw_created_time # 0

\* The value returned and whether the except handler ran (st.error).
OpenOrdersData(orders, dm) ==
    LET st == Loop(LoopStart, orders, 1, dm)
    IN  IF orders = <<>> THEN [data |-> <<>>, error |-> FALSE]
        ELSE IF st.raised \/ MixedTimestamps(st.data)
        THEN [data |-> <<>>, error |-> TRUE]
        ELSE [data |-> SortNewestFirst(st.data), error |-> FALSE]

GetOpenOrdersData ==
    /\ pc = "call_open"
    /\ LET r == OpenOrdersData(open_orders, depth_map)
       IN  /\ orders_data' = r.data
           /\ st_error' = r.error
    /\ pc' = "returned"
    /\ UNCHANGED <<open_orders, depth_map, filled_orders, limit, history, fills_raise>>
    /\ UNCHANGED script_vars
    /\ UNCHANGED coords_vars

(***************************************************************************)
(* get_mission_history                                                     *)
(* A filled order is [order_id, product_id, side, conf, bracket_limit,     *)
(* average_filled_price, filled_size, total_fees, last_fill_time]; conf    *)
(* names the attribute present on order_configuration, bracket_limit is    *)
(* trigger_bracket_gtc.limit_price, last_fill_time 0 is None.  Fill times  *)
(* are instants: the localisation of tz-naive stamps to UTC is not         *)
(* modelled.                                                               *)
(***************************************************************************)
\* Lines 539-547: a bracket SELL filled at or above its limit price.
BracketOutcomeMutStrict(o) ==
    IF o.average_filled_price > o.bracket_limit THEN "SUCCESS" ELSE "CRASH LANDED"

BracketOutcome(o) ==
    IF o.average_filled_price >= o.bracket_limit THEN "SUCCESS" ELSE "CRASH LANDED"

\* mission_status ("DETERMINE STATUS").  The market branch tests the attribute
\* market_market_iot; a market order of the exchange carries market_market_ioc
\* and reaches the fallback.
OutcomeMutStopByPrice(o) ==
    IF o.conf = "none" THEN "UNKNOWN"
    ELSE IF o.conf \in {"limit_limit_gtc", "limit_limit_gtd"} THEN "SUCCESS"
    ELSE IF o.conf = "trigger_bracket_gtc" THEN BracketOutcome(o)
    ELSE IF o.conf \in {"stop_limit_stop_limit_gtc", "stop_limit_stop_limit_gtd"}
    THEN BracketOutcome(o)
    ELSE IF o.conf = "market_market_iot" THEN "ABORTED"
    ELSE "ABORTED"

OutcomeMutFallbackUnknown(o) ==
    IF o.conf = "none" THEN "UNKNOWN"
    ELSE IF o.conf \in {"limit_limit_gtc", "limit_limit_gtd"} THEN "SUCCESS"
    ELSE IF o.conf = "trigger_bracket_gtc" THEN BracketOutcome(o)
    ELSE IF o.conf \in {"stop_limit_stop_limit_gtc", "stop_limit_stop_limit_gtd"}
    THEN "CRASH LANDED"
    ELSE IF o.conf = "market_market_iot" THEN "ABORTED"
    ELSE "UNKNOWN"

Outcome(o) ==
    IF o.conf = "none" THEN "UNKNOWN"
    ELSE IF o.conf \in {"limit_limit_gtc", "limit_limit_gtd"} THEN "SUCCESS"
    ELSE IF o.conf = "trigger_bracket_gtc" THEN BracketOutcome(o)
    ELSE IF o.conf \in {"stop_limit_stop_limit_gtc", "stop_limit_stop_limit_gtd"}
    THEN "CRASH LANDED"
    ELSE IF o.conf = "market_market_iot" THEN "ABORTED"
    ELSE "ABORTED"

\* buy_orders_map[pid]: the BUYs of the product, in list order.
BuyOrdersMap(orders, pid) ==
    SelectSeq(orders, LAMBDA b : b.side = "BUY" /\ b.product_id = pid)

\* b_time < sell_time, for a BUY that has a fill time.
EarlierMutSameTime(b, o) == b.last_fill_time # 0 /\ b.last_fill_time <= o.last_fill_time

Earlier(b, o) == b.last_fill_time # 0 /\ b.last_fill_time < o.last_fill_time

\* diff < size * Decimal('0.01')
TightSize(b, o) == 100 * Abs(b.filled_size - o.filled_size) < o.filled_size

\* First loop (lines 583-597): index in potential_buys of the first BUY that
\* is earlier than SELL o and within 1% of its size, 0 when there is none.
FirstTightBuy(potential_buys, o) ==
    LET hit(k) == Earlier(potential_buys[k], o) /\ TightSize(potential_buys[k], o)
    IN  IF \E k \in 1..Len(potential_buys) : hit(k)
        THEN CHOOSE k \in 1..Len(potential_buys) : hit(k) /\ \A j \in 1..(k - 1) : ~hit(j)
        ELSE 0

\* Fallback loop (lines 600-609): index of the first BUY earlier than SELL o.
FirstEarlierBuy(potential_buys, o) ==
    LET hit(k) == Earlier(potential_buys[k], o)
    IN  IF \E k \in 1..Len(potential_buys) : hit(k)
        THEN CHOOSE k \in 1..Len(potential_buys) : hit(k) /\ \A j \in 1..(k - 1) : ~hit(j)
        ELSE 0

\* matched_buy: index in potential_buys of the BUY matched to SELL o, or 0.
MatchedBuy(potential_buys, o) ==
    IF FirstTightBuy(potential_buys, o) # 0
    THEN FirstTightBuy(potential_buys, o)
    ELSE FirstEarlierBuy(potential_buys, o)

\* sell_proceeds = size * sell_price - sell_fees
Proceeds(o) == o.filled_size * o.average_filled_price - o.total_fees

\* cost_basis = buy_size * buy_price + buy_fees
CostBasisMutNoFees(b) == b.filled_size * b.average_filled_price

CostBasis(b) == b.filled_size * b.average_filled_price + b.total_fees

\* raw_profit of a mission without a match: Decimal('-999999'), in mills.
ProfitSentinel == -999999000

\* The dict appended for SELL o.  matched_buy (the order_id of the matched
\* BUY, 0 when none) is bookkeeping of the model.
HistoricalMission(o, potential_buys) ==
    LET k          == IF potential_buys = <<>> THEN 0 ELSE MatchedBuy(potential_buys, o)
        net_profit == Proceeds(o) - CostBasis(potential_buys[k])
    IN  [id |-> o.order_id,
         product |-> o.product_id,
         proceeds |-> Money(Proceeds(o)),
         price |-> o.average_filled_price,
         raw_time |-> o.last_fill_time,
         size |-> o.filled_size,
         fees |-> Money(o.total_fees),
         profit |-> IF k = 0 THEN NA ELSE SignedMoney(net_profit),
         raw_profit |-> IF k = 0 THEN ProfitSentinel ELSE net_profit,
         status |-> Outcome(o),
         matched_buy |-> IF k = 0 THEN 0 ELSE potential_buys[k].order_id]

\* One iteration of "for o in orders".  A SELL without last_fill_time whose
\* product has BUYs takes sell_time = datetime.now(), on which tz_localize
\* raises AttributeError.
HistoryBodyMutConsume(st, o, orders, lim) ==
    LET unmatched(b) == \A k \in 1..Len(st.hist) : st.hist[k].matched_buy # b.order_id
        potential_buys == SelectSeq(BuyOrdersMap(orders, o.product_id), unmatched)
    IN  IF st.raised \/ st.stopped THEN st
        ELSE IF Len(st.hist) >= lim THEN [st EXCEPT !.stopped = TRUE]
        ELSE IF o.side # "SELL" THEN st
        ELSE IF BuyOrdersMap(orders, o.product_id) # <<>> /\ o.last_fill_time = 0
        THEN [st EXCEPT !.raised = TRUE]
        ELSE [st EXCEPT !.hist = Append(st.hist, HistoricalMission(o, potential_buys))]

HistoryBody(st, o, orders, lim) ==
    LET potential_buys == BuyOrdersMap(orders, o.product_id)
    IN  IF st.raised \/ st.stopped THEN st
        ELSE IF Len(st.hist) >= lim THEN [st EXCEPT !.stopped = TRUE]
        ELSE IF o.side # "SELL" THEN st
        ELSE IF potential_buys # <<>> /\ o.last_fill_time = 0
        THEN [st EXCEPT !.raised = TRUE]
        ELSE [st EXCEPT !.hist = Append(st.hist, HistoricalMission(o, potential_buys))]

RECURSIVE HistoryLoop(_, _, _, _)
HistoryLoop(st, orders, i, lim) ==
    IF i > Len(orders) THEN st
    ELSE HistoryLoop(HistoryBody(st, orders[i], orders, lim), orders, i + 1, lim)

\* history.sort(key=raw_time, reverse=True): stable, newest first.
RECURSIVE SortByFillTime(_)
SortByFillTime(hs) ==
    IF hs = <<>> THEN <<>>
    ELSE LET i == CHOOSE k \in 1..Len(hs) :
                    /\ \A j \in 1..Len(hs) : hs[j].raw_time <= hs[k].raw_time
                    /\ \A j \in 1..(k - 1) : hs[j].raw_time < hs[k].raw_time
         IN  <<hs[i]>> \o SortByFillTime(RemoveAt(hs, i))

\* The sort compares a tz-aware fill time with the tz-naive pd.Timestamp.min of
\* a SELL without last_fill_time: pandas raises TypeError.
MixedFillTimes(hs) ==
    /\ \E i \in 1..Len(hs) : hs[i].raw_time = 0
    /\ \E i \in 1..Len(hs) : hs[i].raw_time # 0

\* An exception is raised while the fetched list is parsed or sorted.
HistoryRaised(orders, lim) ==
    LET st == HistoryLoop([hist |-> <<>>, raised |-> FALSE, stopped |-> FALSE], orders, 1, lim)
    IN  st.raised \/ MixedFillTimes(st.hist)

\* The value returned for a fetched list; every exception ends in "return []".
MissionHistory(orders, lim) ==
    LET st == HistoryLoop([hist |-> <<>>, raised |-> FALSE, stopped |-> FALSE], orders, 1, lim)
    IN  IF HistoryRaised(orders, lim) THEN <<>>
        ELSE SortByFillTime(st.hist)

\* The outcome of the call get_mission_history(client, lim): the value
\* returned, and whether an exception leaves the function (propagated).  The
\* try of line 500 encloses the fetch, the loop and the sort, and its handler
\* (line 659) catches Exception and returns [].
HistoryCallMutNoHandler(list_raises, orders, lim) ==
    [value |-> IF list_raises THEN <<>> ELSE MissionHistory(orders, lim),
     propagated |-> list_raises \/ HistoryRaised(orders, lim)]

HistoryCall(list_raises, orders, lim) ==
    [value |-> IF list_raises THEN <<>> ELSE MissionHistory(orders, lim),
     propagated |-> FALSE]

GetMissionHistoryMutForgets ==
    /\ pc = "call_history"
    /\ history' = IF earlier.set THEN <<>>
                  ELSE HistoryCall(fills_raise, filled_orders, limit).value
    /\ pc' = "returned"
    /\ UNCHANGED <<open_orders, depth_map, orders_data, st_error, filled_orders, limit,
                   fills_raise>>
    /\ UNCHANGED script_vars
    /\ UNCHANGED coords_vars

GetMissionHistory ==
    /\ pc = "call_history"
    /\ history' = HistoryCall(fills_raise, filled_orders, limit).value
    /\ pc' = "returned"
    /\ UNCHANGED <<open_orders, depth_map, orders_data, st_error, filled_orders, limit,
                   fills_raise>>
    /\ UNCHANGED script_vars
    /\ UNCHANGED coords_vars

(***************************************************************************)
(* Inputs                                                                  *)
(***************************************************************************)
MaxPriceSteps == 4

\* Prices of the scoring cases: 80, 90, .., 120 and the two next to 100.
ScorePrices == {80 + 10 * k : k \in 0..MaxPriceSteps} \cup {99, 101}

Unavailable == [usd |-> 0, usdc |-> 0]

Usd(p) == [usd |-> p, usdc |-> 0]

Usdc(p) == [usd |-> 0, usdc |-> p]

Confs == {"limit_limit_gtc", "trigger_bracket_gtc", "stop_limit_stop_limit_gtc",
          "market_market_ioc", "none"}

Sides == {"BUY", "SELL"}

NoDepth == [p \in {"BTC-USD", "ETH-USD", "USDC-USD"} |-> NoBook]

\* An open order as the loop reads it.
Order(pid, side, conf, tp, sl, size, created, l1, l2) ==
    [product_id |-> pid, side |-> side, conf |-> conf, limit_price |-> tp,
     stop_price |-> sl, base_size |-> size, created_time |-> created,
     look1 |-> l1, look2 |-> l2]

\* price_history.get(pid, {}) of a product without an entry: price 0, trend
\* 'NEUTRAL'.
NoPriceHistory == [p \in {"BTC-USD", "ETH-USD", "USDC-USD"} |-> [price |-> 0, trend |-> "NEUTRAL"]]

Untouched == [p \in {"BTC-USD", "ETH-USD", "USDC-USD"} |-> 0]

\* No run before the latest one.
NoEarlier == [set |-> FALSE, value |-> <<>>]

\* get_game_coords_safe has not been called.
NoPlacement == [called |-> FALSE]

\* The page has not been rendered.
IdlePage ==
    /\ price_history = NoPriceHistory
    /\ page = <<>>
    /\ idx = 0
    /\ touched = Untouched
    /\ slept = 0

\* The page script has not run.
IdleScript ==
    /\ IdlePage
    /\ rng = <<>>
    /\ placement = NoPlacement
    /\ earlier = NoEarlier

IdleHistory ==
    /\ filled_orders = <<>>
    /\ fills_raise = FALSE
    /\ limit = 0
    /\ history = <<>>
    /\ IdleScript

IdleOpen ==
    /\ open_orders = <<>>
    /\ depth_map = NoDepth
    /\ orders_data = <<>>
    /\ st_error = FALSE

(***************************************************************************)
(* SpecScore: one call of get_open_orders_data on two orders of one        *)
(* product that agree on configuration, side, target and floor and are     *)
(* priced by two lookups c1, c2 (0: no price).  For a limit order the      *)
(* floor is what the second lookup answers.                                *)
(***************************************************************************)
InitScore ==
    /\ pc = "call_open"
    /\ \E conf \in Confs, side \in Sides,
          tp \in ScorePrices \cup {0}, sl \in ScorePrices \cup {0},
          c1 \in ScorePrices \cup {0}, c2 \in ScorePrices \cup {0} :
         open_orders =
            << Order("BTC-USD", side, conf, tp, sl, 1000, 2, Usd(c1), Usd(sl)),
               Order("BTC-USD", side, conf, tp, sl, 1000, 1, Usd(c2), Usd(sl)) >>
    /\ depth_map = NoDepth
    /\ orders_data = <<>>
    /\ st_error = FALSE
    /\ IdleHistory

NextOpen == GetOpenOrdersData

SpecScore == InitScore /\ [][NextOpen]_vars

Returned == pc = "returned"

Missions == {orders_data[i] : i \in 1..Len(orders_data)}

\* C1: every mission returned by get_open_orders_data has an integer health
\* score between 0 and 100, whatever the configuration, side, target, floor
\* and resolved price of its order.
C1_HealthInRange ==
    Returned => \A m \in Missions : m.health \in 0..100

\* A returned mission whose raw percentage lies outside 0..100 (current price
\* above the target, then below the floor on the other order).
C1_Witness ==
    /\ Returned
    /\ \E m \in Missions : m.tp_price = 100 /\ m.sl_price = 90
                           /\ m.current_price = 120 /\ m.health = 100
    /\ \E m \in Missions : m.tp_price = 100 /\ m.sl_price = 90
                           /\ m.current_price = 80 /\ m.health = 0

\* C2: with target, floor and current price all set and target # floor, the
\* health is 100 * (current - floor) / (target - floor) truncated toward zero
\* and clamped to 0..100: 0 below 1, 100 from 100 on, and otherwise the
\* integer h with h <= ratio < h + 1; so 0 at the floor, 100 at the target
\* (target > floor) and 50 for target 120, floor 80, current 100.
C2_Interpolation ==
    Returned =>
        \A m \in Missions :
            LET t == m.tp_price
                f == m.sl_price
                c == m.current_price
                h == m.health
                r == 100 * (c - f) * (t - f)
                d == (t - f) * (t - f)
            IN  (t > 0 /\ f > 0 /\ c > 0 /\ t # f) =>
                    /\ IF r < d THEN h = 0
                       ELSE IF r >= 100 * d THEN h = 100
                       ELSE h * d <= r /\ r < (h + 1) * d
                    /\ (t > f /\ c = f) => h = 0
                    /\ (t > f /\ c = t) => h = 100
                    /\ (t = 120 /\ f = 80 /\ c = 100) => h = 50

\* Target 110, floor 80: current 100 gives 66 (66.67 truncated), current 110
\* gives 100.
C2_Witness ==
    /\ Returned
    /\ \E m \in Missions : m.tp_price = 110 /\ m.sl_price = 80
                           /\ m.current_price = 100 /\ m.health = 66
    /\ \E m \in Missions : m.tp_price = 110 /\ m.sl_price = 80
                           /\ m.current_price = 110 /\ m.health = 100

\* C3: for target > floor > 0 and two current prices c1 <= c2 within
\* [floor, target], the health at c1 is at most the health at c2, and both
\* lie in 0..100.
C3_Monotone ==
    Returned =>
        \A m1 \in Missions, m2 \in Missions :
            ( /\ m1.tp_price = m2.tp_price
              /\ m1.sl_price = m2.sl_price
              /\ m1.tp_price > m1.sl_price
              /\ m1.sl_price > 0
              /\ m1.sl_price <= m1.current_price
              /\ m1.current_price <= m2.current_price
              /\ m2.current_price <= m1.tp_price )
            => /\ m1.health <= m2.health
               /\ m1.health \in 0..100
               /\ m2.health \in 0..100

\* Two prices strictly inside the range with strictly increasing scores.
C3_Witness ==
    /\ Returned
    /\ \E m1 \in Missions, m2 \in Missions :
          /\ m1.tp_price = 120 /\ m2.tp_price = 120
          /\ m1.sl_price = 80 /\ m2.sl_price = 80
          /\ m1.current_price = 90 /\ m2.current_price = 101
          /\ m1.health = 25 /\ m2.health = 52

(***************************************************************************)
(* SpecPass: one call of get_open_orders_data on up to MaxOrders open      *)
(* orders of two products, of every configuration, with price lookups that *)
(* answer or fail, and creation times newest first, oldest first or        *)
(* missing on the first order.                                             *)
(***************************************************************************)
MaxOrders == 2

PassProducts == {"BTC-USD", "ETH-USD"}

\* What the exchange answers for a product's best bid when it answers.
PassPrice(pid) == IF pid = "BTC-USD" THEN 100 ELSE 90

Answer(pid, ok) == IF ok THEN Usd(PassPrice(pid)) ELSE Unavailable

PassOrders ==
    {Order(pid, "SELL", "none", 0, 0, 0, 0, Answer(pid, ok1), Unavailable) :
        pid \in PassProducts, ok1 \in BOOLEAN}
    \cup
    {Order(pid, "SELL", "market_market_ioc", 0, 0, 0, 0, Answer(pid, TRUE), Unavailable) :
        pid \in PassProducts}
    \cup
    {Order(pid, "SELL", "limit_limit_gtc", 120, 0, 1000, 0, Answer(pid, ok1), Answer(pid, ok2)) :
        pid \in PassProducts, ok1 \in BOOLEAN, ok2 \in BOOLEAN}
    \cup
    {Order(pid, "SELL", "trigger_bracket_gtc", tp, sl, 1000, 0, Answer(pid, ok1), Unavailable) :
        pid \in PassProducts, tp \in {0, 120}, sl \in {0, 80}, ok1 \in BOOLEAN}
    \cup
    {Order(pid, side, "stop_limit_stop_limit_gtc", 0, sl, 1000, 0, Answer(pid, ok1), Unavailable) :
        pid \in PassProducts, side \in Sides, sl \in {0, 90}, ok1 \in BOOLEAN}

PassLists == UNION {[1..n -> PassOrders] : n \in 0..MaxOrders}

\* created_time of the order at index i of n under an ordering of the answer.
Created(order, i, n) ==
    CASE order = "newest_first" -> n + 1 - i
      [] order = "oldest_first" -> i
      [] order = "first_missing" -> IF i = 1 THEN 0 ELSE i

Stamp(list, order) ==
    [i \in 1..Len(list) |-> [list[i] EXCEPT !.created_time = Created(order, i, Len(list))]]

InitPass ==
    /\ pc = "call_open"
    /\ \E list \in PassLists, order \in {"newest_first", "oldest_first", "first_missing"} :
         open_orders = Stamp(list, order)
    /\ depth_map = NoDepth
    /\ orders_data = <<>>
    /\ st_error = FALSE
    /\ IdleHistory

SpecPass == InitPass /\ [][NextOpen]_vars

Unrecognised(o) == o.conf \notin {"limit_limit_gtc", "trigger_bracket_gtc", "stop_limit_stop_limit_gtc"}

\* C4: an open order whose configuration is absent or is none of limit,
\* bracket, stop-limit is classified (0, 0, 0), yields no returned mission and
\* no error report, and the other orders of the pass that carry a target or a
\* floor still have their missions returned.
C4_UnrecognisedExcluded ==
    Returned =>
        \A i \in 1..Len(open_orders) :
            Unrecognised(open_orders[i]) =>
                /\ Classify(open_orders[i]) = [tp |-> 0, sl |-> 0, size |-> 0]
                /\ ~ \E m \in Missions : m.src = i
                /\ ~ st_error
                /\ \A j \in 1..Len(open_orders) :
                       LET c == Classify(open_orders[j])
                       IN  (c.tp > 0 \/ c.sl > 0) => \E m \in Missions : m.src = j

(***************************************************************************)
(* SpecDepth: one call of get_open_orders_data on one order (bracket with  *)
(* target 200 and floor 100, or stop-limit with floor 100) whose product   *)
(* has an order book of up to MaxLevels asks above and bids below the      *)
(* current price, evenly stepped, with flat, rising or falling sizes.      *)
(***************************************************************************)
MaxLevels == 28

LevelCounts == (0..4) \cup {MaxLevels - 1, MaxLevels}

LevelSize(k, n, pattern, lot) ==
    CASE pattern = "flat" -> lot
      [] pattern = "rising" -> lot * k
      [] pattern = "falling" -> lot * (n + 1 - k)

\* n levels leaving the current price in direction dir (+1 asks, -1 bids).
Levels(cur, dir, n, step, pattern, lot) ==
    [k \in 1..n |-> [price |-> cur + dir * step * k, size |-> LevelSize(k, n, pattern, lot)]]

Patterns == {"flat", "rising", "falling"}

InitDepth ==
    /\ pc = "call_open"
    /\ \E conf \in {"trigger_bracket_gtc", "stop_limit_stop_limit_gtc"}, cur \in {110, 150},
          nA \in LevelCounts, nB \in LevelCounts,
          stepA \in {1, 4}, stepB \in {1, 4},
          patA \in Patterns, patB \in Patterns, lotA \in {1, 20} :
         /\ open_orders =
               << Order("BTC-USD", "SELL", conf, 200, 100, 1000, 1, Usd(cur), Unavailable) >>
         /\ depth_map =
               [NoDepth EXCEPT !["BTC-USD"] =
                   [asks |-> Levels(cur, 1, nA, stepA, patA, lotA),
                    bids |-> Levels(cur, -1, nB, stepB, patB, 1),
                    present |-> TRUE]]
    /\ orders_data = <<>>
    /\ st_error = FALSE
    /\ IdleHistory

SpecDepth == InitDepth /\ [][NextOpen]_vars

\* The valid candidates of each side of mission m's book: the levels that
\* pass the range and window filters.
AskCandidates(m) ==
    RawUfos(depth_map[m.product_id].asks, m.tp_price, m.sl_price, m.current_price)

BidCandidates(m) ==
    RawStars(depth_map[m.product_id].bids, m.tp_price, m.sl_price, m.current_price)

PairwiseSpaced(items) ==
    \A i \in 1..Len(items), j \in 1..Len(items) :
        i # j => Abs(items[i].pct - items[j].pct) >= spacing_min_dist

\* C5 as claimed: the kept entries of both sides together never exceed 24, and
\* a side keeps at least 3 entries whenever it has at least 3 valid candidates.
C5_Original ==
    Returned =>
        \A m \in Missions :
            /\ Len(m.ufos) + Len(m.stars) <= total_slots
            /\ Len(AskCandidates(m)) >= min_slots => Len(m.ufos) >= min_slots
            /\ Len(BidCandidates(m)) >= min_slots => Len(m.stars) >= min_slots

\* C5 amended: the kept entries of both sides together never exceed 24, and a
\* side keeps at least 3 entries whenever it has at least 3 valid candidates
\* and no two of its candidates are closer than 4 percentage points.
C5_Amended ==
    Returned =>
        \A m \in Missions :
            /\ Len(m.ufos) + Len(m.stars) <= total_slots
            /\ (Len(AskCandidates(m)) >= min_slots /\ PairwiseSpaced(AskCandidates(m)))
                   => Len(m.ufos) >= min_slots
            /\ (Len(BidCandidates(m)) >= min_slots /\ PairwiseSpaced(BidCandidates(m)))
                   => Len(m.stars) >= min_slots

\* More spaced candidates than slots: the floor of 3 on the bid side pushes the
\* sum over 24, the ask side is trimmed to 21 and exactly 24 entries are kept.
C5_Witness ==
    /\ Returned
    /\ \E m \in Missions :
          /\ Len(AskCandidates(m)) > 21
          /\ PairwiseSpaced(AskCandidates(m))
          /\ Len(BidCandidates(m)) >= 3
          /\ PairwiseSpaced(BidCandidates(m))
          /\ Len(m.ufos) = 21
          /\ Len(m.stars) = 3

(***************************************************************************)
(* SpecMatch: one call of get_mission_history(limit) on a list of up to    *)
(* MaxFills filled orders, in any order: SELLs of BTC-USD, BUYs of BTC-USD *)
(* (whose fill time may be missing) and BUYs of ETH-USD.                   *)
(***************************************************************************)
MaxFills == 3

FillTimes == 1..3

Limits == {1, 2}

Fill(pid, side, conf, blimit, price, size, fees, time) ==
    [order_id |-> 0, product_id |-> pid, side |-> side, conf |-> conf,
     bracket_limit |-> blimit, average_filled_price |-> price,
     filled_size |-> size, total_fees |-> fees, last_fill_time |-> time]

MatchFills ==
    {Fill("BTC-USD", "SELL", "limit_limit_gtc", 0, 50, 2000, 1000, t) : t \in FillTimes}
    \cup
    {Fill("BTC-USD", "BUY", "market_market_ioc", 0, 40, size, 500, t) :
        size \in {1000, 2010, 2020}, t \in FillTimes \cup {0}}
    \cup
    {Fill("ETH-USD", "BUY", "market_market_ioc", 0, 30, 2000, 500, t) : t \in FillTimes}

\* order_id: the position in the exchange's answer.
Numbered(list) == [i \in 1..Len(list) |-> [list[i] EXCEPT !.order_id = i]]

InitMatch ==
    /\ pc = "call_history"
    /\ \E n \in 0..MaxFills, lim \in Limits :
         /\ n <= 5 * lim
         /\ limit = lim
         /\ \E list \in [1..n -> MatchFills] : filled_orders = Numbered(list)
    /\ history = <<>>
    /\ fills_raise = FALSE
    /\ IdleOpen
    /\ IdleScript

NextHistory == GetMissionHistory

SpecMatch == InitMatch /\ [][NextHistory]_vars

HistoricalMissions == {history[i] : i \in 1..Len(history)}

Fills == {filled_orders[i] : i \in 1..Len(filled_orders)}

FillOf(id) == filled_orders[id]

\* The BUYs a SELL may be matched to: same product, filled strictly earlier.
PriorBuys(sell) ==
    {b \in Fills : /\ b.side = "BUY"
                   /\ b.product_id = sell.product_id
                   /\ b.last_fill_time # 0
                   /\ b.last_fill_time < sell.last_fill_time}

\* C6: a returned mission shows a numeric profit only if the list holds a BUY
\* of the same product filled strictly before the SELL, and the BUY used as
\* cost basis is such a BUY; when there is none the profit is "N/A", neither
\* a zero amount nor the sort sentinel.
C6_ProfitNeedsPriorBuy ==
    Returned =>
        \A m \in HistoricalMissions :
            LET prior == PriorBuys(FillOf(m.id))
            IN  /\ ~m.profit.na => m.matched_buy \in {b.order_id : b \in prior}
                /\ prior = {} => /\ m.profit = NA
                                 /\ m.matched_buy = 0

\* One result holding a SELL with a numeric profit and a SELL shown "N/A"
\* although the list holds a BUY of its product (filled at the same time).
C6_Witness ==
    /\ Returned
    /\ \E m \in HistoricalMissions : ~m.profit.na /\ m.matched_buy # 0
    /\ \E m \in HistoricalMissions :
          /\ m.profit = NA
          /\ \E b \in Fills : /\ b.side = "BUY"
                              /\ b.product_id = m.product
                              /\ b.last_fill_time = m.raw_time

\* C7: among the BUYs of the SELL's product filled strictly before it, the
\* match is the first one in list order whose size is within 1% of the SELL's
\* size; if none is, the match is the most recent of them.
C7_Original ==
    Returned =>
        \A m \in HistoricalMissions :
            LET sell  == FillOf(m.id)
                prior == PriorBuys(sell)
                tight == {b \in prior :
                            100 * Abs(b.filled_size - sell.filled_size) < sell.filled_size}
            IN  /\ tight # {} =>
                      /\ m.matched_buy \in {b.order_id : b \in tight}
                      /\ \A b \in tight : m.matched_buy <= b.order_id
                /\ (tight = {} /\ prior # {}) =>
                      /\ m.matched_buy \in {b.order_id : b \in prior}
                      /\ \A b \in prior :
                            b.last_fill_time <= FillOf(m.matched_buy).last_fill_time

\* C8: the result is the first limit elements of the list's SELLs sorted by
\* fill time descending: min(limit, number of SELLs) distinct SELLs, newest
\* first, and no SELL left out is more recent than a SELL returned.
C8_Original ==
    Returned =>
        LET sells == {o \in Fills : o.side = "SELL"}
            ids   == {m.id : m \in HistoricalMissions}
        IN  /\ Len(history) = Min(limit, Cardinality(sells))
            /\ Cardinality(ids) = Len(history)
            /\ ids \subseteq {o.order_id : o \in sells}
            /\ \A i \in 1..Len(history), j \in 1..Len(history) :
                   i < j => history[i].raw_time >= history[j].raw_time
            /\ \A o \in sells :
                   o.order_id \notin ids =>
                       \A m \in HistoricalMissions : o.last_fill_time <= m.raw_time

(***************************************************************************)
(* SpecLedger: one call of get_mission_history on a SELL of every          *)
(* configuration, price and fee, listed before a BUY of the same product   *)
(* filled earlier.                                                         *)
(***************************************************************************)
FillConfs ==
    {"limit_limit_gtc", "limit_limit_gtd", "trigger_bracket_gtc",
     "stop_limit_stop_limit_gtc", "stop_limit_stop_limit_gtd",
     "market_market_ioc", "market_market_iot", "sor_limit_ioc", "none"}

LedgerSells ==
    {Fill("BTC-USD", "SELL", conf, blimit, price, 2000, fees, 2) :
        conf \in FillConfs, blimit \in {0, 50}, price \in {40, 50, 60},
        fees \in {0, 5, 1000}}

LedgerBuys ==
    {Fill("BTC-USD", "BUY", "market_market_ioc", 0, price, size, fees, 1) :
        price \in {40, 60}, size \in {1000, 2000, 2010}, fees \in {4, 500}}

InitLedger ==
    /\ pc = "call_history"
    /\ limit = 1
    /\ \E sell \in LedgerSells, buy \in LedgerBuys :
         /\ sell.conf # "trigger_bracket_gtc" => sell.bracket_limit = 0
         /\ filled_orders = Numbered(<<sell, buy>>)
    /\ history = <<>>
    /\ fills_raise = FALSE
    /\ IdleOpen
    /\ IdleScript

SpecLedger == InitLedger /\ [][NextHistory]_vars

\* C9: for a SELL matched to a BUY, cost basis = buy size x buy average price
\* + buy fees, proceeds = sell size x sell average price - sell fees, profit =
\* proceeds - cost basis, shown to the cent with a leading "+" exactly when
\* it is >= 0; SELL 2.0 at 50 with fees 1.0 against BUY 2.0 at 40 with fees
\* 0.5 shows +18.50.
C9_Profit ==
    Returned =>
        \A m \in HistoricalMissions :
            m.matched_buy # 0 =>
                LET sell     == FillOf(m.id)
                    buy      == FillOf(m.matched_buy)
                    cost     == buy.filled_size * buy.average_filled_price + buy.total_fees
                    proceeds == sell.filled_size * sell.average_filled_price - sell.total_fees
                    profit   == proceeds - cost
                IN  /\ m.raw_profit = profit
                    /\ ~m.profit.na
                    /\ m.profit.plus <=> profit >= 0
                    /\ m.profit.minus <=> profit < 0
                    /\ Abs(10 * m.profit.cents - Abs(profit)) <= 5
                    /\ Abs(10 * m.proceeds.cents - Abs(proceeds)) <= 5
                    /\ ( /\ sell.filled_size = 2000 /\ sell.average_filled_price = 50
                         /\ sell.total_fees = 1000
                         /\ buy.filled_size = 2000 /\ buy.average_filled_price = 40
                         /\ buy.total_fees = 500 )
                       => (m.profit.plus /\ m.profit.cents = 1850)

\* The scenario of the claim: proceeds 99.00, cost 80.50, profit +18.50.
C9_Witness ==
    /\ Returned
    /\ \E m \in HistoricalMissions :
          /\ m.matched_buy # 0
          /\ FillOf(m.id).total_fees = 1000 /\ FillOf(m.id).average_filled_price = 50
          /\ FillOf(m.matched_buy).filled_size = 2000
          /\ FillOf(m.matched_buy).average_filled_price = 40
          /\ FillOf(m.matched_buy).total_fees = 500
          /\ m.proceeds.cents = 9900
          /\ m.profit = [na |-> FALSE, plus |-> TRUE, minus |-> FALSE, cents |-> 1850]

\* C10: a filled SELL with a bracket configuration is SUCCESS if and only if
\* its average filled price is >= the bracket's limit price, and CRASH LANDED
\* otherwise.
C10_BracketOutcome ==
    Returned =>
        \A m \in HistoricalMissions :
            LET sell == FillOf(m.id)
            IN  sell.conf = "trigger_bracket_gtc" =>
                    /\ (sell.average_filled_price >= sell.bracket_limit) => m.status = "SUCCESS"
                    /\ (sell.average_filled_price < sell.bracket_limit) => m.status = "CRASH LANDED"

\* A bracket SELL filled exactly at its limit price, classified SUCCESS.
C10_Witness ==
    /\ Returned
    /\ \E m \in HistoricalMissions :
          /\ FillOf(m.id).conf = "trigger_bracket_gtc"
          /\ FillOf(m.id).bracket_limit = 50
          /\ FillOf(m.id).average_filled_price = 50
          /\ m.status = "SUCCESS"

StopLimitConfs == {"stop_limit_stop_limit_gtc", "stop_limit_stop_limit_gtd"}

\* C11: a filled SELL with a stop-limit configuration (good-till-cancelled or
\* good-till-date) is classified CRASH LANDED whatever its fill price, its
\* fees and the profit it made.
C11_StopLimitCrash ==
    Returned =>
        \A m \in HistoricalMissions :
            FillOf(m.id).conf \in StopLimitConfs => m.status = "CRASH LANDED"

\* A stop-limit SELL filled at 60 against a BUY at 40, a profit, and still
\* CRASH LANDED.
C11_Witness ==
    /\ Returned
    /\ \E m \in HistoricalMissions :
          /\ FillOf(m.id).conf = "stop_limit_stop_limit_gtc"
          /\ FillOf(m.id).average_filled_price = 60
          /\ m.profit.plus
          /\ m.status = "CRASH LANDED"

\* C12: a filled SELL that has a configuration which is the market one, or is
\* none of limit, bracket and stop-limit, is classified ABORTED.
C12_MarketAborted ==
    Returned =>
        \A m \in HistoricalMissions :
            LET conf == FillOf(m.id).conf
            IN  ( /\ conf # "none"
                  /\ conf \notin {"limit_limit_gtc", "limit_limit_gtd", "trigger_bracket_gtc"}
                  /\ conf \notin StopLimitConfs )
                => m.status = "ABORTED"

\* A market SELL as the exchange reports it (market_market_ioc), ABORTED by
\* the fallback branch.
C12_Witness ==
    /\ Returned
    /\ \E m \in HistoricalMissions :
          /\ FillOf(m.id).conf = "market_market_ioc"
          /\ m.status = "ABORTED"

(***************************************************************************)
(* SpecFail: one call of get_open_orders_data on up to MaxFailOrders open  *)
(* orders of two products while the exchange raises on some of the price   *)
(* lookups (get_best_bid answers None) and on some of the depth lookups    *)
(* (get_market_depth answers None).                                        *)
(***************************************************************************)
MaxFailOrders == 2

\* The order book the exchange answers for a product when it answers.
FailBook(pid) ==
    [asks |-> Levels(PassPrice(pid), 1, 2, 5, "rising", 1),
     bids |-> Levels(PassPrice(pid), -1, 2, 5, "falling", 1),
     present |-> TRUE]

FailOrders ==
    {Order(pid, "SELL", "market_market_ioc", 0, 0, 0, 0, Answer(pid, ok1), Unavailable) :
        pid \in PassProducts, ok1 \in BOOLEAN}
    \cup
    {Order(pid, "SELL", "limit_limit_gtc", 120, 0, 1000, 0, Answer(pid, ok1), Answer(pid, ok2)) :
        pid \in PassProducts, ok1 \in BOOLEAN, ok2 \in BOOLEAN}
    \cup
    {Order(pid, "SELL", "trigger_bracket_gtc", 120, 80, 1000, 0, Answer(pid, ok1), Unavailable) :
        pid \in PassProducts, ok1 \in BOOLEAN}
    \cup
    {Order(pid, "BUY", "stop_limit_stop_limit_gtc", 0, 95, 1000, 0, Answer(pid, ok1), Unavailable) :
        pid \in PassProducts, ok1 \in BOOLEAN}

InitFail ==
    /\ pc = "call_open"
    /\ \E n \in 0..MaxFailOrders, order \in {"newest_first", "oldest_first"} :
         \E list \in [1..n -> FailOrders] : open_orders = Stamp(list, order)
    /\ \E up \in SUBSET PassProducts :
         depth_map = [p \in DOMAIN NoDepth |-> IF p \in up THEN FailBook(p) ELSE NoBook]
    /\ orders_data = <<>>
    /\ st_error = FALSE
    /\ IdleHistory

SpecFail == InitFail /\ [][NextOpen]_vars

\* The exchange's answers with every lookup of product p succeeding.
HealedOrders(p) ==
    [i \in 1..Len(open_orders) |->
        IF open_orders[i].product_id # p THEN open_orders[i]
        ELSE [open_orders[i] EXCEPT
                 !.look1 = Answer(p, TRUE),
                 !.look2 = IF open_orders[i].conf = "limit_limit_gtc"
                           THEN Answer(p, TRUE) ELSE Unavailable]]

HealedDepth(p) == [depth_map EXCEPT ![p] = FailBook(p)]

\* What the call returns when no lookup of product p fails.
WithoutFailure(p) == OpenOrdersData(HealedOrders(p), HealedDepth(p))

C15_StopSell ==
    Returned =>
        \A m \in Missions :
            LET f == m.sl_price
                c == m.current_price
                h == m.health
            IN  (m.tp_price = 0 /\ f > 0 /\ c > 0 /\ m.side = "SELL") =>
                    /\ c <= f => h = 0
                    /\ c > f =>
                          /\ h \in 50..100
                          /\ IF 500 * (c - f) >= 50 * f THEN h = 100
                             ELSE /\ (h - 50) * f <= 500 * (c - f)
                                  /\ 500 * (c - f) < (h - 49) * f
                    /\ (f = 90 /\ c = 80) => h = 0

\* Floor 100: current 101 gives 55, current 99 gives 0.
C15_Witness ==
    /\ Returned
    /\ \E m \in Missions : /\ m.tp_price = 0 /\ m.sl_price = 100 /\ m.side = "SELL"
                           /\ m.current_price = 101 /\ m.health = 55
    /\ \E m \in Missions : /\ m.tp_price = 0 /\ m.sl_price = 100 /\ m.side = "SELL"
                           /\ m.current_price = 99 /\ m.health = 0

\* C16: a mission with a floor, no target, a current price and side BUY has
\* health 100 if and only if current >= floor; below the floor it is
\* y = 100 * (1 - (floor - current) / (0.1 * floor)) truncated and clamped to
\* 0..99: 0 when y < 1, else the integer h with h <= y < h + 1; floor 110,
\* current 110 gives 100.
C16_StopBuy ==
    Returned =>
        \A m \in Missions :
            LET f == m.sl_price
                c == m.current_price
                h == m.health
                y == 100 * f - 1000 * (f - c)
            IN  (m.tp_price = 0 /\ f > 0 /\ c > 0 /\ m.side = "BUY") =>
                    /\ h = 100 <=> c >= f
                    /\ c < f =>
                          /\ h \in 0..99
                          /\ IF y < f THEN h = 0
                             ELSE h * f <= y /\ y < (h + 1) * f
                    /\ (f = 110 /\ c = 110) => h = 100

\* Floor 100: current 99 gives 90, current 100 gives 100.
C16_Witness ==
    /\ Returned
    /\ \E m \in Missions : /\ m.tp_price = 0 /\ m.sl_price = 100 /\ m.side = "BUY"
                           /\ m.current_price = 99 /\ m.health = 90
    /\ \E m \in Missions : /\ m.tp_price = 0 /\ m.sl_price = 100 /\ m.side = "BUY"
                           /\ m.current_price = 100 /\ m.health = 100

\* The four cases in which the scorer has too little to work with.
Insufficient(tp, sl, cur) ==
    \/ tp > 0 /\ tp = sl
    \/ tp > 0 /\ sl = 0
    \/ tp = 0 /\ sl = 0
    \/ cur = 0

\* C17: the health is 50 when target = floor with both set, when only the
\* target is set, when neither is set, and when the current price is absent:
\* for every returned mission, and for the score computed for every order of
\* the answer, returned or not.
C17_Default ==
    Returned =>
        /\ \A m \in Missions :
               Insufficient(m.tp_price, m.sl_price, m.current_price) => m.health = 50
        /\ \A i \in 1..Len(open_orders) :
               LET o   == open_orders[i]
                   c   == Classify(o)
                   cur == GetAssetPrice(Asset(o.product_id), o.look1)
               IN  Insufficient(c.tp, c.sl, cur) => HealthScore(c.tp, c.sl, cur, o.side) = 50

\* Target = floor = 100 at current price 120, and a second mission of the
\* same order shape without a current price: both 50.
C17_Witness ==
    /\ Returned
    /\ \E m \in Missions : /\ m.tp_price = 100 /\ m.sl_price = 100
                           /\ m.current_price = 120 /\ m.health = 50
    /\ \E m \in Missions : /\ m.tp_price = 100 /\ m.sl_price = 100
                           /\ m.current_price = 0 /\ m.health = 50

(***************************************************************************)
(* SpecValue: one call of get_open_orders_data on one bracket or           *)
(* stop-limit order, with sizes whose value needs rounding to the cent.    *)
(***************************************************************************)
\* Sizes in thousandths: none, 0.015, 1.0, 1.005.
ValueSizes == {0, 15, 1000, 1005}

InitValue ==
    /\ pc = "call_open"
    /\ \E conf \in {"trigger_bracket_gtc", "stop_limit_stop_limit_gtc"}, side \in Sides,
          tp \in {0, 99, 101, 120}, sl \in {0, 80}, cur \in {0, 99, 101},
          size \in ValueSizes :
         open_orders = << Order("BTC-USD", side, conf, tp, sl, size, 1, Usd(cur), Unavailable) >>
    /\ depth_map = NoDepth
    /\ orders_data = <<>>
    /\ st_error = FALSE
    /\ IdleHistory

SpecValue == InitValue /\ [][NextOpen]_vars

\* The display string d shows the amount of a mills, rounded to the cent.
Shows(d, a) ==
    /\ ~d.na
    /\ Abs(10 * d.cents - Abs(a)) <= 5
    /\ d.minus <=> a < 0

history_limit == 20

\* time.sleep(30)
refresh_seconds == 30

\* An element handed to streamlit: its kind and, for a card, the product, the
\* status text and the flight direction shown; src is the order the card was
\* built from.
Element(kind) == [kind |-> kind, product |-> "", status |-> "", trend |-> "", src |-> 0]

\* trend_direction ("Trend Logic") from the stored entry and the mission's price.
TrendDirectionMutFirstKeeps(prev_data, current_price) ==
    IF current_price > prev_data.price THEN "RIGHT"
    ELSE IF current_price < prev_data.price THEN "LEFT"
    ELSE prev_data.trend

TrendDirection(prev_data, current_price) ==
    IF prev_data.price = 0 THEN "RIGHT"
    ELSE IF current_price > prev_data.price THEN "RIGHT"
    ELSE IF current_price < prev_data.price THEN "LEFT"
    ELSE prev_data.trend

\* status_text of a mission card.
StatusText(side, health) ==
    IF side = "BUY" THEN "STAGING"
    ELSE IF health > 50 THEN "STABLE"
    ELSE IF health > 20 THEN "UNSTABLE"
    ELSE "CRITICAL"

\* The card of mission o (html_content).
MissionCard(o, hist) ==
    [kind |-> "mission", product |-> o.product_id,
     status |-> StatusText(o.side, o.health),
     trend |-> IF o.side = "BUY" THEN ""
               ELSE TrendDirection(hist[o.product_id], o.current_price),
     src |-> o.src]

\* The card of historical mission h (hist_html); any status other than
\* CRASH LANDED and ABORTED keeps the defaults of a success.
HistoryCard(h) ==
    [kind |-> "history", product |-> h.product,
     status |-> IF h.status = "CRASH LANDED" THEN "FAILED"
                ELSE IF h.status = "ABORTED" THEN "ABORTED"
                ELSE "SUCCESS",
     trend |-> "", src |-> h.id]

MaxPollOrders == 2

\* What the exchange may answer for the open orders in one pass.
PollOrders ==
    {Order("BTC-USD", "SELL", "trigger_bracket_gtc", 120, 80, 1000, 0, Usd(p), Unavailable) :
        p \in {0, 90, 100}}
    \cup
    {Order("BTC-USD", "BUY", "stop_limit_stop_limit_gtc", 0, 95, 1000, 0, Usd(100), Unavailable),
     Order("ETH-USD", "BUY", "stop_limit_stop_limit_gtc", 0, 95, 1000, 0, Usd(90), Unavailable),
     Order("ETH-USD", "SELL", "market_market_ioc", 0, 0, 0, 0, Usd(90), Unavailable)}

PollLists ==
    {Stamp(list, "newest_first") : list \in UNION {[1..n -> PollOrders] : n \in 0..MaxPollOrders}}

\* What the exchange may answer for the filled orders in one pass: it raises,
\* or it answers one of these lists (a matched SELL; a SELL without fill time
\* whose product has a BUY; SELLs with and without fill time; a lone BUY).
PollFills ==
    { [raises |-> TRUE, orders |-> <<>>],
      [raises |-> FALSE, orders |-> <<>>],
      [raises |-> FALSE, orders |-> Numbered(<<
          Fill("BTC-USD", "SELL", "stop_limit_stop_limit_gtc", 0, 50, 2000, 1000, 2),
          Fill("BTC-USD", "BUY", "market_market_ioc", 0, 40, 2000, 500, 1) >>)],
      [raises |-> FALSE, orders |-> Numbered(<<
          Fill("BTC-USD", "SELL", "limit_limit_gtc", 0, 50, 2000, 1000, 0),
          Fill("BTC-USD", "BUY", "market_market_ioc", 0, 40, 2000, 500, 1) >>)],
      [raises |-> FALSE, orders |-> Numbered(<<
          Fill("ETH-USD", "SELL", "limit_limit_gtc", 0, 50, 2000, 1000, 2),
          Fill("ETH-USD", "SELL", "market_market_ioc", 0, 50, 2000, 1000, 0) >>)],
      [raises |-> FALSE, orders |-> Numbered(<<
          Fill("BTC-USD", "BUY", "market_market_ioc", 0, 40, 2000, 500, 1) >>)] }

\* Lines 994-999: the client is created and get_open_orders_data is called;
\* its handler reports an exception through st.error.
ScanMissions ==
    /\ pc = "main"
    /\ \E list \in PollLists :
         /\ open_orders' = list
         /\ LET r == OpenOrdersData(list, depth_map)
            IN  /\ orders_data' = r.data
                /\ st_error' = r.error
                /\ page' = IF r.error THEN Append(page, Element("error")) ELSE page
    /\ pc' = "missions"
    /\ UNCHANGED <<depth_map, filled_orders, limit, history, fills_raise,
                   price_history, idx, touched, slept>>
    /\ UNCHANGED coords_vars

\* Lines 1001-1002: no missions.
NoMissions ==
    /\ pc = "missions"
    /\ orders_data = <<>>
    /\ page' = Append(page, Element("info"))
    /\ pc' = "history"
    /\ UNCHANGED <<open_orders, depth_map, orders_data, st_error, filled_orders, limit,
                   history, fills_raise, price_history, idx, touched, slept>>
    /\ UNCHANGED coords_vars

\* Lines 1003-1035: the header of the mission list.
MissionsHeaderMutSkipLoop ==
    /\ pc = "missions"
    /\ orders_data # <<>>
    /\ page' = Append(page, Element("missions_header"))
    /\ idx' = 1
    /\ pc' = "history"
    /\ UNCHANGED <<open_orders, depth_map, orders_data, st_error, filled_orders, limit,
                   history, fills_raise, price_history, touched, slept>>
    /\ UNCHANGED coords_vars

MissionsHeader ==
    /\ pc = "missions"
    /\ orders_data # <<>>
    /\ page' = Append(page, Element("missions_header"))
    /\ idx' = 1
    /\ pc' = "mission_loop"
    /\ UNCHANGED <<open_orders, depth_map, orders_data, st_error, filled_orders, limit,
                   history, fills_raise, price_history, touched, slept>>
    /\ UNCHANGED coords_vars

\* Lines 1037-1263: one iteration of "for o in orders".  For a side other than
\* BUY the product's price_history entry is read and overwritten.
RenderMissionMutEverySide ==
    /\ pc = "mission_loop"
    /\ idx <= Len(orders_data)
    /\ LET o   == orders_data[idx]
           pid == o.product_id
       IN  /\ page' = Append(page, MissionCard(o, price_history))
           /\ price_history' =
                 [price_history EXCEPT ![pid] =
                     [price |-> o.current_price,
                      trend |-> TrendDirection(price_history[pid], o.current_price)]]
           /\ touched' = [touched EXCEPT ![pid] = @ + 1]
    /\ idx' = idx + 1
    /\ pc' = IF idx = Len(orders_data) THEN "history" ELSE "mission_loop"
    /\ UNCHANGED <<open_orders, depth_map, orders_data, st_error, filled_orders, limit,
                   history, fills_raise, slept>>
    /\ UNCHANGED coords_vars

RenderMission ==
    /\ pc = "mission_loop"
    /\ idx <= Len(orders_data)
    /\ LET o   == orders_data[idx]
           pid == o.product_id
       IN  /\ page' = Append(page, MissionCard(o, price_history))
           /\ IF o.side = "BUY"
              THEN UNCHANGED <<price_history, touched>>
              ELSE /\ price_history' =
                         [price_history EXCEPT ![pid] =
                             [price |-> o.current_price,
                              trend |-> TrendDirection(price_history[pid], o.current_price)]]
                   /\ touched' = [touched EXCEPT ![pid] = @ + 1]
    /\ idx' = idx + 1
    /\ pc' = IF idx = Len(orders_data) THEN "history" ELSE "mission_loop"
    /\ UNCHANGED <<open_orders, depth_map, orders_data, st_error, filled_orders, limit,
                   history, fills_raise, slept>>
    /\ UNCHANGED coords_vars

\* Lines 1266-1270: the header of the history section, then the call of
\* get_mission_history.  An exception leaving the call would end the script.
FetchHistory ==
    /\ pc = "history"
    /\ \E answer \in PollFills :
         /\ fills_raise' = answer.raises
         /\ filled_orders' = answer.orders
         /\ LET r == HistoryCall(answer.raises, answer.orders, history_limit)
            IN  IF r.propagated
                THEN pc' = "crashed" /\ UNCHANGED history
                ELSE pc' = "history_cards" /\ history' = r.value
    /\ limit' = history_limit
    /\ page' = Append(page, Element("history_header"))
    /\ UNCHANGED <<open_orders, depth_map, orders_data, st_error,
                   price_history, idx, touched, slept>>
    /\ UNCHANGED coords_vars

\* Lines 1272-1312: a card for every historical mission, or a caption.
RenderHistory ==
    /\ pc = "history_cards"
    /\ page' = IF history # <<>>
               THEN page \o [k \in 1..Len(history) |-> HistoryCard(history[k])]
               ELSE Append(page, Element("history_caption"))
    /\ pc' = "refresh"
    /\ UNCHANGED <<open_orders, depth_map, orders_data, st_error, filled_orders, limit,
                   history, fills_raise, price_history, idx, touched, slept>>
    /\ UNCHANGED coords_vars

\* Lines 1314-1321: the refresh caption, then time.sleep(30).
AutoRefresh ==
    /\ pc = "refresh"
    /\ page' = Append(page, Element("refresh_caption"))
    /\ slept' = slept + refresh_seconds
    /\ pc' = "rerun"
    /\ UNCHANGED <<open_orders, depth_map, orders_data, st_error, filled_orders, limit,
                   history, fills_raise, price_history, idx, touched>>
    /\ UNCHANGED coords_vars

\* Line 1322: st.rerun().  The script starts again; only the session state
\* (price_history) is kept.
Rerun ==
    /\ pc = "rerun"
    /\ pc' = "main"
    /\ open_orders' = <<>>
    /\ orders_data' = <<>>
    /\ st_error' = FALSE
    /\ filled_orders' = <<>>
    /\ fills_raise' = FALSE
    /\ limit' = 0
    /\ history' = <<>>
    /\ page' = <<>>
    /\ idx' = 0
    /\ touched' = Untouched
    /\ slept' = 0
    /\ UNCHANGED <<depth_map, price_history>>
    /\ UNCHANGED coords_vars

InitPoll ==
    /\ pc = "main"
    /\ IdleOpen
    /\ IdleHistory

NextPoll ==
    \/ ScanMissions
    \/ NoMissions
    \/ MissionsHeader
    \/ RenderMission
    \/ FetchHistory
    \/ RenderHistory
    \/ AutoRefresh
    \/ Rerun

SpecPoll == InitPoll /\ [][NextPoll]_vars

\* The script is a sequential program: every statement it has reached is
\* executed, and time.sleep(30) returns.
SpecPollFair == SpecPoll /\ WF_vars(NextPoll)

\* The cards of one kind on the page, in page order.
Cards(kind) == SelectSeq(page, LAMBDA e : e.kind = kind)

\* get_mission_history has been called in this run of the script.
HistoryCalled == pc \in {"history_cards", "refresh", "rerun", "crashed"}

\* The call met an exception: in the fetch, the parsing or the sort.
HistoryFailed == fills_raise \/ HistoryRaised(filled_orders, limit)

\* C14: no exception ever leaves get_mission_history; whenever the fetch of
\* the filled orders raises, or parsing or sorting them raises, the call has
\* returned the empty list; and from such a call the script always goes on
\* to start its next pass.
C14_HistoryFailureContained ==
    /\ [](pc # "crashed")
    /\ []((HistoryCalled /\ HistoryFailed) => history = <<>>)
    /\ ((pc = "history_cards" /\ HistoryFailed) ~> (pc = "main"))

\* The pass of a failed history call at its end: the open missions were
\* rendered, the history shows its caption, the script has slept and is
\* about to rerun.
C14_Witness ==
    /\ pc = "rerun"
    /\ ~fills_raise
    /\ HistoryRaised(filled_orders, limit)
    /\ history = <<>>
    /\ Cards("mission") # <<>>
    /\ Cards("history_caption") # <<>>
    /\ slept = refresh_seconds

\* The number of missions whose iteration of the script's loop has finished.
Rendered ==
    IF pc = "mission_loop" THEN idx - 1
    ELSE IF pc \in {"history", "history_cards", "refresh", "rerun"} THEN Len(orders_data)
    ELSE 0

\* C19 as claimed: a result of the pass is on the page only when the whole
\* derivation of the pass, fill matching included, has run to completion.
C19_Original ==
    (Cards("mission") # <<>> \/ Cards("history") # <<>>)
        => pc \in {"history_cards", "refresh", "rerun"}

\* C19 amended: the mission cards on the page are the missions returned by
\* this pass's get_open_orders_data, in order, one per finished iteration of
\* the loop; get_mission_history is called after the last of them, so no
\* mission card follows the history header; the history cards are the missions
\* it returned, in order, and are on the page only after it returned; the
\* script has slept its 30 seconds only when all of them are on the page, and
\* a new pass starts with an empty page.
C19_Amended ==
    /\ Len(Cards("mission")) = Rendered
    /\ \A k \in 1..Len(Cards("mission")) : Cards("mission")[k].src = orders_data[k].src
    /\ IF pc \in {"refresh", "rerun"}
       THEN /\ Len(Cards("history")) = Len(history)
            /\ \A k \in 1..Len(history) : Cards("history")[k].src = history[k].id
       ELSE Cards("history") = <<>>
    /\ \A j \in 1..Len(page), k \in 1..Len(page) :
          (j < k /\ page[j].kind = "history_header") => page[k].kind # "mission"
    /\ slept = IF pc = "rerun" THEN refresh_seconds ELSE 0
    /\ pc = "main" => page = <<>>

\* The end of a pass that rendered two open missions and a historical one.
C19_Witness ==
    /\ pc = "rerun"
    /\ slept = refresh_seconds
    /\ Len(Cards("mission")) = 2
    /\ Len(Cards("history")) = 1
    /\ page[Len(page)].kind = "refresh_caption"

\* The products that have an open order in this pass.
OpenProducts == {open_orders[k].product_id : k \in 1..Len(open_orders)}

\* The rendered missions of product p whose side is not BUY.
Flights(p) ==
    {k \in 1..Rendered : orders_data[k].product_id = p /\ orders_data[k].side # "BUY"}

\* C20 as claimed: when the loop of a pass has finished, the stored state of
\* every product with an open order has been read and overwritten exactly
\* once, and no other product's.
C20_Original ==
    pc \in {"history", "history_cards", "refresh", "rerun"} =>
        \A p \in DOMAIN touched : touched[p] = IF p \in OpenProducts THEN 1 ELSE 0

\* C20 amended: the stored state of a product is read and overwritten once
\* for every rendered mission of that product whose side is not BUY (twice
\* when two SELL orders share it, never for a product with BUY orders only
\* or when the pass returned no missions), and then holds the price of the
\* last such mission.
C20_Amended ==
    \A p \in DOMAIN touched :
        /\ touched[p] = Cardinality(Flights(p))
        /\ Flights(p) # {} =>
              LET last == CHOOSE k \in Flights(p) : \A j \in Flights(p) : j <= k
              IN  price_history[p].price = orders_data[last].current_price

\* Two SELL missions on BTC-USD at different prices: the entry was overwritten
\* twice, the second mission compared its price with the first one's.
C20_Witness ==
    /\ pc = "history"
    /\ touched["BTC-USD"] = 2
    /\ orders_data[1].current_price = 100
    /\ orders_data[2].current_price = 90
    /\ price_history["BTC-USD"] = [price |-> 90, trend |-> "LEFT"]

(***************************************************************************)
(* Two runs of get_mission_history over the same answer                    *)
(***************************************************************************)
\* The caller keeps the list returned and calls get_mission_history a second
\* time; the exchange answers the second call with the same filled orders in
\* the same order.
CallAgain ==
    /\ pc = "returned"
    /\ ~earlier.set
    /\ earlier' = [set |-> TRUE, value |-> history]
    /\ pc' = "call_history"
    /\ UNCHANGED <<open_orders, depth_map, orders_data, st_error, filled_orders, limit,
                   history, fills_raise, rng, placement>>
    /\ UNCHANGED script_vars

NextRepeat ==
    \/ GetMissionHistory
    \/ CallAgain

SpecRepeat == InitMatch /\ [][NextRepeat]_vars

Kept(m) ==
    {m.ufos[i] : i \in 1..Len(m.ufos)} \cup {m.stars[i] : i \in 1..Len(m.stars)}

\* The largest size of a non-empty list of entries.
LargestSize(items) ==
    CHOOSE s \in {items[i].raw_size : i \in 1..Len(items)} :
        \A i \in 1..Len(items) : items[i].raw_size <= s

LargestKept(m) ==
    CHOOSE s \in {e.raw_size : e \in Kept(m)} : \A e \in Kept(m) : e.raw_size <= s

\* C22 as claimed: the tier of a kept entry is given by the ratio of its size
\* to the larger of the two sides' maximum kept size, so the largest kept
\* entry of a mission is tier 3.
C22_Original ==
    Returned =>
        \A m \in Missions :
            \A e \in Kept(m) :
                /\ e.level = Level(e.raw_size, LargestKept(m))
                /\ e.raw_size = LargestKept(m) => e.level = 3

\* C22 amended: the tier of a kept entry is given by the ratio of its size to
\* the larger of the two sides' maximum kept size, where a side that keeps
\* nothing counts as 1.0; so the largest kept entry is tier 3 when both sides
\* keep an entry, and otherwise when its size exceeds 0.6.
C22_Amended ==
    Returned =>
        \A m \in Missions :
            LET side_max(items) == IF items = <<>> THEN default_max_size
                                   ELSE LargestSize(items)
                global_max == Max(side_max(m.ufos), side_max(m.stars))
            IN  \A e \in Kept(m) :
                    /\ e.level = Level(e.raw_size, global_max)
                    /\ e.raw_size = LargestKept(m) =>
                          \/ e.level = 3
                          \/ /\ m.ufos = <<>> \/ m.stars = <<>>
                             /\ e.raw_size * 10 <= 6 * default_max_size

\* Asks of half a unit are kept, no bid is a candidate: the largest kept entry
\* is measured against 1.0 and is tier 2.
C22_Witness ==
    /\ Returned
    /\ \E m \in Missions :
          /\ m.stars = <<>>
          /\ Len(m.ufos) >= 2
          /\ \A i \in 1..Len(m.ufos) : m.ufos[i].raw_size = 1 /\ m.ufos[i].level = 2

(***************************************************************************)
(* The spacing filter                                                      *)
(***************************************************************************)
\* The slot counts computed for the book of mission m.
Slots(m) ==
    SlotCounts(VolAccum(depth_map[m.product_id].asks),
               VolAccum(depth_map[m.product_id].bids))

\* What filter_spaced_items(candidates, target_count, 4) may return as kept:
\* at most target_count entries, pairwise at least min_dist apart, the first
\* of them the largest candidate, and every candidate left out either meets
\* full slots or lies closer than min_dist to a kept entry of at least its
\* size.
WellFiltered(candidates, kept, target_count) ==
    /\ Len(kept) <= target_count
    /\ PairwiseSpaced(kept)
    /\ candidates # <<>> =>
          /\ kept # <<>>
          /\ kept[1].raw_size = LargestSize(candidates)
    /\ \A i \in 1..Len(candidates) :
          \/ \E k \in 1..Len(kept) : kept[k].price = candidates[i].price
          \/ Len(kept) = target_count
          \/ \E k \in 1..Len(kept) :
                /\ Abs(kept[k].pct - candidates[i].pct) < spacing_min_dist
                /\ kept[k].raw_size >= candidates[i].raw_size

\* C23: on both sides of every mission the kept entries are a well-filtered
\* choice among the candidates.
C23_Filter ==
    Returned =>
        \A m \in Missions :
            /\ WellFiltered(AskCandidates(m), m.ufos, Slots(m).ufo)
            /\ WellFiltered(BidCandidates(m), m.stars, Slots(m).star)

\* One side fills its slots and leaves candidates out, the other leaves a
\* candidate out although it has slots left, because of the spacing.
C23_Witness ==
    /\ Returned
    /\ \E m \in Missions :
          /\ Len(m.ufos) = Slots(m).ufo
          /\ Len(AskCandidates(m)) > Len(m.ufos)
          /\ Len(m.stars) < Slots(m).star
          /\ Len(BidCandidates(m)) > Len(m.stars)
          /\ m.stars # <<>>

(***************************************************************************)
(* Placement of the depth entries on a mission's card                      *)
(* (get_game_coords_safe and its two calling loops, lines 1053-1121)       *)
(* A generator is seeded with the entry's price string, so the values it   *)
(* yields are fixed by the price and by the range asked for; they are not  *)
(* known before they are drawn.  rng[zone] holds, for the one entry        *)
(* considered, the values drawn for a zone: xs[k] and ys[k] the k-th       *)
(* randint(min_x, max_x) and randint(10, 80), jx and jy the two            *)
(* randint(-2, 2) that follow twenty attempts.                             *)
(***************************************************************************)
max_attempts == 20

safe_dist == 5

\* "UFO Zone" and "Star Zone": the x range of the asks and of the bids.
UfoZone(health) == [min_x |-> 2, max_x |-> Max(5, health - 10)]

StarZone(health) == [min_x |-> Min(95, health + 10), max_x |-> 98]

Zone(kind, health) == IF kind = "ufo" THEN UfoZone(health) ELSE StarZone(health)

\* "Adjust for Rocket Lane".
LaneAdjust(y) ==
    IF 45 < y /\ y < 55 THEN (IF y % 2 = 0 THEN y - 15 ELSE y + 15) ELSE y

\* The candidate of attempt k (1..20 for the source's 0..19).
Candidate(gen, k, min_x, max_x) ==
    [x |-> IF min_x >= max_x THEN min_x ELSE gen.xs[k],
     y |-> LaneAdjust(gen.ys[k])]

\* "Collision Check": dist < 5.0, with dist the root of an integer.
CollisionMutNear(placed_list, c) ==
    \E i \in 1..Len(placed_list) :
        (placed_list[i].x - c.x) * (placed_list[i].x - c.x)
          + (placed_list[i].y - c.y) * (placed_list[i].y - c.y) < 2 * 2

Collision(placed_list, c) ==
    \E i \in 1..Len(placed_list) :
        (placed_list[i].x - c.x) * (placed_list[i].x - c.x)
          + (placed_list[i].y - c.y) * (placed_list[i].y - c.y) < safe_dist * safe_dist

\* The loop from attempt k on and the fallback after it.  attempts and found
\* are bookkeeping: the number of candidates generated, and whether one of
\* them was returned.
RECURSIVE Attempt(_, _, _, _, _)
Attempt(gen, k, min_x, max_x, placed_list) ==
    IF k > max_attempts
    THEN LET best == Candidate(gen, 1, min_x, max_x)
         IN  [x |-> best.x + gen.jx, y |-> best.y + gen.jy,
              attempts |-> max_attempts, found |-> FALSE]
    ELSE LET c == Candidate(gen, k, min_x, max_x)
         IN  IF ~Collision(placed_list, c)
             THEN [x |-> c.x, y |-> c.y, attempts |-> k, found |-> TRUE]
             ELSE Attempt(gen, k + 1, min_x, max_x, placed_list)

\* get_game_coords_safe(seed_val, min_x, max_x, placed_list), gen being the
\* values the generator seeded with seed_val yields for this range.
GetGameCoordsSafeMutSharedRng(gen, min_x, max_x, placed_list) ==
    Attempt(gen, 1 + Len(placed_list), min_x, max_x, placed_list)

GetGameCoordsSafe(gen, min_x, max_x, placed_list) ==
    Attempt(gen, 1, min_x, max_x, placed_list)

\* Inputs: the card of a mission of health 0 or 50, on which up to MaxPlaced
\* entries have been placed: near the zone's lower left corner, near its
\* right edge below the rocket lane, near its right edge above the lane.
MaxPlaced == 2

CoordsHealths == {0, 50}

Kinds == {"ufo", "star"}

PlacedBefore(z, n) ==
    SubSeq(<< [x |-> z.min_x + 1, y |-> 12],
              [x |-> z.max_x - 1, y |-> 37],
              [x |-> z.max_x - 2, y |-> 64],
              [x |-> z.min_x, y |-> 80] >>, 1, n)

\* The generators considered: the first k attempts draw one raw point, the
\* later ones another; raw points are the zone's lower left corner and two
\* points of the rocket lane on its right edge.
RawPoints(z) ==
    [low |-> [x |-> z.min_x, y |-> 10],
     even |-> [x |-> z.max_x, y |-> 50],
     odd |-> [x |-> z.max_x, y |-> 51]]

Generators(z) ==
    { [xs |-> [i \in 1..max_attempts |-> IF i <= k THEN RawPoints(z)[pq[1]].x
                                         ELSE RawPoints(z)[pq[2]].x],
       ys |-> [i \in 1..max_attempts |-> IF i <= k THEN RawPoints(z)[pq[1]].y
                                         ELSE RawPoints(z)[pq[2]].y],
       jx |-> j, jy |-> 0 - j] :
         k \in {0, 1, max_attempts - 1, max_attempts},
         pq \in {<<"low", "even">>, <<"even", "odd">>, <<"odd", "low">>},
         j \in {-2, 2} }

\* One refresh places the entry: the loop of lines 1099-1121 calls
\* get_game_coords_safe with the zone of the mission's health and the points
\* placed so far.  The generator's values for a zone are drawn at the first
\* call with that zone and are the same at every later one.
PlaceEntry ==
    /\ pc = "call_coords"
    /\ \E kind \in Kinds, health \in CoordsHealths, n \in 0..MaxPlaced :
         LET z == Zone(kind, health)
         IN  \E gen \in Generators(z) :
                /\ z \in DOMAIN rng => gen = rng[z]
                /\ rng' = IF z \in DOMAIN rng THEN rng ELSE rng @@ (z :> gen)
                /\ placement' =
                      [called |-> TRUE, kind |-> kind, health |-> health,
                       min_x |-> z.min_x, max_x |-> z.max_x,
                       placed_list |-> PlacedBefore(z, n),
                       point |-> GetGameCoordsSafe(gen, z.min_x, z.max_x,
                                                   PlacedBefore(z, n))]
    /\ earlier' = IF placement.called THEN [set |-> TRUE, value |-> placement]
                  ELSE earlier
    /\ pc' = IF placement.called THEN "returned" ELSE "call_coords"
    /\ UNCHANGED <<open_orders, depth_map, orders_data, st_error, filled_orders, limit,
                   history, fills_raise>>
    /\ UNCHANGED script_vars

InitCoords ==
    /\ pc = "call_coords"
    /\ IdleOpen
    /\ IdleHistory

NextCoords == PlaceEntry

SpecCoords == InitCoords /\ [][NextCoords]_vars

\* The generator and the first candidate of the latest call.
GenOf(call) == rng[[min_x |-> call.min_x, max_x |-> call.max_x]]

FirstCandidate(call) == Candidate(GenOf(call), 1, call.min_x, call.max_x)

FarFromPlaced(call) ==
    \A i \in 1..Len(call.placed_list) :
        (call.placed_list[i].x - call.point.x) * (call.placed_list[i].x - call.point.x)
          + (call.placed_list[i].y - call.point.y) * (call.placed_list[i].y - call.point.y)
              >= safe_dist * safe_dist

\* C24: get_game_coords_safe returns after at most 20 attempts; the point
\* returned is at distance 5 or more from every point already placed, unless
\* all 20 candidates collided, and then it is the first candidate moved by at
\* most 2 on each axis.
C24_SafeCoords ==
    placement.called =>
        /\ placement.point.attempts \in 1..max_attempts
        /\ \/ /\ placement.point.found
              /\ FarFromPlaced(placement)
           \/ /\ ~placement.point.found
              /\ \A k \in 1..max_attempts :
                    Collision(placement.placed_list,
                              Candidate(GenOf(placement), k, placement.min_x, placement.max_x))
              /\ Abs(placement.point.x - FirstCandidate(placement).x) <= 2
              /\ Abs(placement.point.y - FirstCandidate(placement).y) <= 2

\* One refresh found a free point only at its twentieth attempt, another had
\* all twenty candidates collide and returned the jittered first candidate,
\* which lies closer than 5 to a placed point.
C24_Witness ==
    /\ pc = "returned"
    /\ earlier.value.point.found
    /\ earlier.value.point.attempts = max_attempts
    /\ ~placement.point.found
    /\ ~FarFromPlaced(placement)

SameZone(a, b) == a.min_x = b.min_x /\ a.max_x = b.max_x

FirstFree(call) == ~Collision(call.placed_list, FirstCandidate(call))

\* C25 as claimed: an entry of unchanged price is placed at the same
\* coordinates in two refreshes, whatever the mission's health and the
\* entries placed before it in each of them.
C25_Original ==
    (pc = "returned" /\ earlier.set) =>
        /\ placement.point.x = earlier.value.point.x
        /\ placement.point.y = earlier.value.point.y

\* C25 amended: an entry of unchanged price is placed at the same coordinates
\* in two refreshes when it has the same x range in both (the same side, and
\* a health that gives the same zone) and its first candidate is 5 or more
\* away from every entry placed before it in each of them.
C25_Amended ==
    (/\ pc = "returned"
     /\ earlier.set
     /\ SameZone(placement, earlier.value)
     /\ FirstFree(placement)
     /\ FirstFree(earlier.value)) =>
        /\ placement.point.x = earlier.value.point.x
        /\ placement.point.y = earlier.value.point.y

\* Two refreshes with the same zone and different entries placed before, the
\* first candidate free in both: the same point.
C25_Witness ==
    /\ pc = "returned"
    /\ earlier.set
    /\ SameZone(placement, earlier.value)
    /\ placement.placed_list # earlier.value.placed_list
    /\ placement.placed_list # <<>>
    /\ earlier.value.placed_list # <<>>
    /\ FirstFree(placement)
    /\ FirstFree(earlier.value)
    /\ placement.point.x = earlier.value.point.x
    /\ placement.point.y = earlier.value.point.y

(***************************************************************************)
(* Limit orders: the floor is a second price lookup                        *)
(***************************************************************************)
LimitOrder(o) == o.conf = "limit_limit_gtc" /\ o.limit_price > 0

\* The two lookups of a limit order resolve to the same price p > 0.
SameLookups(o) ==
    /\ GetAssetPrice(Asset(o.product_id), o.look1) > 0
    /\ GetAssetPrice(Asset(o.product_id), o.look2)
          = GetAssetPrice(Asset(o.product_id), o.look1)

\* The part of C26 about equal lookups: the floor is the current price, and
\* the health is 50 when the target equals it and 0 otherwise.
LimitHealthAtFloor(m) ==
    /\ m.sl_price = m.current_price
    /\ m.health = IF m.tp_price = m.current_price THEN 50 ELSE 0

\* C26: the mission of a limit order whose two lookups resolve to the same
\* price has that price as floor and health 0 (50 when the target equals the
\* price), and no limit order gets a health other than 0 or 50.
C26_LimitHealth ==
    Returned =>
        \A m \in Missions :
            LimitOrder(open_orders[m.src]) =>
                /\ SameLookups(open_orders[m.src]) => LimitHealthAtFloor(m)
                /\ m.health \in {0, 50}

\* The first half of C26 alone.
C26_EqualLookups ==
    Returned =>
        \A m \in Missions :
            (LimitOrder(open_orders[m.src]) /\ SameLookups(open_orders[m.src]))
                => LimitHealthAtFloor(m)

(***************************************************************************)
(* The value strings of a mission and the orders before it                 *)
(***************************************************************************)
\* The order carries a target or a floor: the valuation block runs for it.
HasData(o) == Classify(o).tp > 0 \/ Classify(o).sl > 0

\* The missions order o yields when the pass holds one other order before it.
AfterAnother(other, o) ==
    LET first  == [other EXCEPT !.created_time = o.created_time]
        result == OpenOrdersData(<<first, o>>, depth_map)
    IN  {result.data[k] : k \in {j \in 1..Len(result.data) : result.data[j].src = 2}}

\* C27: the value and upside strings of a returned mission are a function of
\* its own order (size, current price, target), the same whatever order came
\* before it in the pass; and a pass fails only if it also fails without the
\* orders for which the strings are not computed.
C27_OwnStrings ==
    Returned =>
        /\ \A m \in Missions :
              \A other \in PassOrders :
                  \A m2 \in AfterAnother(other, open_orders[m.src]) :
                      /\ m2.mission_value = m.mission_value
                      /\ m2.upside = m.upside
        /\ st_error => OpenOrdersData(SelectSeq(open_orders, HasData), depth_map).error

(***************************************************************************)
(* Matching does not consume BUYs                                          *)
(***************************************************************************)
\* The answer reduced to one SELL and the BUYs of its product, in list order.
SellWithItsBuys(id) ==
    LET own(f) == \/ f.order_id = id
                  \/ f.side = "BUY" /\ f.product_id = FillOf(id).product_id
    IN  SelectSeq(filled_orders, own)

\* C28: every returned mission is the one its SELL yields from the SELL and
\* the BUYs of its product alone, with the same matched BUY and the same
\* profit, whatever other SELLs the answer holds and whatever they matched.
C28_NoConsumption ==
    Returned =>
        \A m \in HistoricalMissions :
            MissionHistory(SellWithItsBuys(m.id), limit) = <<m>>

\* Two SELLs of the same result have the same BUY as cost basis.
C28_Witness ==
    /\ Returned
    /\ \E m1 \in HistoricalMissions, m2 \in HistoricalMissions :
          /\ m1.id # m2.id
          /\ m1.matched_buy # 0
          /\ m1.matched_buy = m2.matched_buy
          /\ ~m1.profit.na
          /\ ~m2.profit.na

(***************************************************************************)
(* The stored trend                                                        *)
(***************************************************************************)
Products == DOMAIN price_history

\* The script is about to render a mission of product p that is not a BUY.
Observing(p) ==
    /\ pc = "mission_loop"
    /\ idx <= Len(orders_data)
    /\ orders_data[idx].product_id = p
    /\ orders_data[idx].side # "BUY"

\* The entry of a product is the default of a missing one, or holds RIGHT or
\* LEFT.
TrendStored ==
    \A p \in Products :
        \/ price_history[p] = NoPriceHistory[p]
        \/ price_history[p].trend \in {"RIGHT", "LEFT"}

\* What one step does to the entry of product p: rendering a mission that is
\* not a BUY stores the observed price with RIGHT at a first observation
\* (stored price 0) and at a higher price, LEFT at a lower price, the stored
\* trend at an equal price; every other step leaves the entry as it is.
TrendStep(p) ==
    IF Observing(p)
    THEN LET prev == price_history[p]
             cur  == orders_data[idx].current_price
         IN  /\ price_history'[p].price = cur
             /\ price_history'[p].trend \in {"RIGHT", "LEFT"}
             /\ prev.price = 0 => price_history'[p].trend = "RIGHT"
             /\ (prev.price # 0 /\ cur > prev.price) => price_history'[p].trend = "RIGHT"
             /\ (prev.price # 0 /\ cur < prev.price) => price_history'[p].trend = "LEFT"
             /\ (prev.price # 0 /\ cur = prev.price) => price_history'[p].trend = prev.trend
             /\ price_history'[p].trend = "LEFT" =>
                    \/ cur < prev.price
                    \/ cur = prev.price /\ prev.trend = "LEFT"
    ELSE price_history'[p] = price_history[p]

\* C29: the trend stored for a product is RIGHT or LEFT, never NEUTRAL; a
\* first observation and a higher price store RIGHT, a lower price stores
\* LEFT, an equal price keeps the stored trend, so a stored LEFT goes back to
\* a decrease of the observed price with only equal observations after it;
\* rendering a BUY order, like every other step, leaves the stored state
\* unchanged.
C29_Trend ==
    /\ []TrendStored
    /\ [][\A p \in Products : TrendStep(p)]_vars

\* LEFT is stored for BTC-USD at price 90 after a fall from 100, and the
\* current pass has rendered a SELL and then a BUY of that product.
C29_Witness ==
    /\ price_history["BTC-USD"] = [price |-> 90, trend |-> "LEFT"]
    /\ Len(page) >= 3
    /\ page[Len(page)].kind = "mission"
    /\ page[Len(page)].product = "BTC-USD"
    /\ page[Len(page)].status = "STAGING"
    /\ page[Len(page) - 1].kind = "mission"
    /\ page[Len(page) - 1].product = "BTC-USD"
    /\ page[Len(page) - 1].trend = "LEFT"

====
